---- MODULE Spec2Model ----
(***************************************************************************)
(* Cloud-cost knowledge base: graph construction (graph/ingest.py), schema *)
(* (graph/schema.py) and embedding enrichment (embeddings/embed_nodes.py)  *)
(* modelled as state machines over a property-graph store.                 *)
(*                                                                         *)
(* The store is a set of nodes, each with a store-assigned element id, a   *)
(* label, its key property, its other properties and its embedding, and a  *)
(* set of relationships, each with its own element id.  Element ids are    *)
(* opaque and unique: the id of a node is <<label, key, k>> for the k-th   *)
(* node created with that label and key, and likewise for relationships.   *)
(* One session.run is one atomic step against the store (an auto-commit    *)
(* transaction).                                                           *)
(*                                                                         *)
(* Cells of an input row are the CSV cell texts; NaN is the value pandas   *)
(* gives an empty cell and None the value row.get gives for a column the   *)
(* row's data frame does not have.  md5(...).hexdigest()[:16] is modelled  *)
(* as collision-free: an id is md5(s) for the joined string s.             *)
(***************************************************************************)
EXTENDS Integers, Sequences, FiniteSets, TLC

VARIABLES
  graph,      \* the graph store: [nodes, rels]
  files,      \* the rows of the two CSV files, AWS first
  rows,       \* ingest_all: all_rows
  order,      \* the row indexes in the order they are processed
  phase,      \* what is running: "idle", "ingest", "done", "noconn", "crashed", ...
  pos,        \* ingest_all: position of the loop in order
  pc,         \* create_cost_record_with_relationships: the next session.run
  success,    \* ingest_all: success
  errors,     \* ingest_all: errors
  faults,     \* store failures so far
  runs,       \* calls of ingest_all so far
  attempts,   \* per row index, the calls made for it in this run
  rowStart,   \* the graph when the current row's call began
  prevErrors, \* errors of the last finished run, -1 before any
  wpc,        \* concurrent workers: per worker, the next session.run of its row
  restarts,   \* concurrent workers: step sequences stopped partway and re-run
  embRuns,    \* calls of run_embeddings so far
  epc,        \* run_embeddings: [stage, i], where the run is
  pending,    \* embed_node_type: the (node_id, text) pairs not written yet
  rag,        \* CloudCostRAG.query: the locals of the call and where it is
  indexes,    \* the names of the vector indexes the database has
  clears,     \* the calls of clear_database made, and those made with confirm
  made        \* the make_id calls traced: their parts and the id returned

vars == <<graph, files, rows, order, phase, pos, pc, success, errors, faults,
          runs, attempts, rowStart, prevErrors, wpc, restarts, embRuns, epc, pending,
          rag, indexes, clears, made>>

otherVars == <<wpc, restarts, embRuns, epc, pending, rag, indexes, clears, made>>

(***************************************************************************)
(* Bounds of the model.                                                    *)
(***************************************************************************)
NRows == 2
MaxRuns == 2
MaxFaults == 1
MaxEmbRuns == 2
MaxRestarts == 1
BATCH_SIZE == 1    \* 64 in the source
QueryLimit == 2    \* LIMIT 10000 in the source
MaxTopK == 2

(***************************************************************************)
(* Python values.                                                          *)
(***************************************************************************)
None == "<None>"
NaN == "<NaN>"
Zero == "<0>"
Null == "<null>"

Digit(d) ==
  CASE d = 0 -> "0" [] d = 1 -> "1" [] d = 2 -> "2" [] d = 3 -> "3"
    [] d = 4 -> "4" [] d = 5 -> "5" [] d = 6 -> "6" [] d = 7 -> "7"
    [] d = 8 -> "8" [] d = 9 -> "9"

RECURSIVE NatStr(_)
NatStr(n) == IF n < 10 THEN Digit(n) ELSE NatStr(n \div 10) \o Digit(n % 10)

\* str(i) of an int
IntStr(i) == IF i < 0 THEN "-" \o NatStr(0 - i) ELSE NatStr(i)

\* an int as a part handed to make_id: 0 is the falsy int
PyInt(i) == IF i = 0 THEN Zero ELSE IntStr(i)

\* str(p)
PyStr(p) ==
  CASE p = NaN -> "nan"
    [] p = None -> "None"
    [] p = Zero -> "0"
    [] OTHER -> p

\* bool(p): None, "" and 0 are falsy; NaN is a float that is not 0, so truthy
Truthy(p) == p \notin {None, "", Zero}

\* pd.isna(val)
IsNa(val) == val \in {NaN, None}

\* str.strip() on the cell texts of the model
Strip(s) ==
  CASE s = " " -> ""
    [] s = " i-0abc " -> "i-0abc"
    [] OTHER -> s

\* or: the first operand when truthy, else the second
Or(a, b) == IF Truthy(a) THEN a ELSE b

safe_str(val) ==
  IF IsNa(val) \/ val = "" THEN None ELSE Strip(PyStr(val))

\* float(text) of the cell texts of the model; "n/a" is a text float() rejects
IsFloatText(val) == val \in {"0", "10", "25", "-5", "3"}

FloatOf(val) ==
  CASE val = "0" -> 0 [] val = "10" -> 10 [] val = "25" -> 25
    [] val = "-5" -> 0 - 5 [] val = "3" -> 3

safe_float(val) ==
  IF IsNa(val) THEN 0
  ELSE IF IsFloatText(val) THEN FloatOf(val)
  ELSE 0

\* f"{x:.4f}" of a whole number
Fmt4f(x) == IntStr(x) \o ".0000"

\* str.upper() of the source tags
Upper(s) ==
  CASE s = "aws" -> "AWS" [] s = "azure" -> "AZURE" [] OTHER -> s

\* desc[:500]: every text of the model is shorter than 500 characters
Trunc500(s) == s

RECURSIVE JoinBar(_)
JoinBar(parts) ==
  IF Len(parts) = 0 THEN ""
  ELSE IF Len(parts) = 1 THEN parts[1]
  ELSE parts[1] \o "|" \o JoinBar(Tail(parts))

RECURSIVE TruthyStrs(_)
TruthyStrs(parts) ==
  IF Len(parts) = 0 THEN <<>>
  ELSE IF Truthy(Head(parts)) THEN <<PyStr(Head(parts))>> \o TruthyStrs(Tail(parts))
  ELSE TruthyStrs(Tail(parts))

\* hashlib.md5(combined.encode()).hexdigest()[:16], taken as collision-free
md5(combined) == "md5(" \o combined \o ")"

make_id(parts) == md5(JoinBar(TruthyStrs(parts)))

(***************************************************************************)
(* parse_tags.  A Tags cell is NaN (empty CSV cell), a number (a column    *)
(* pandas read as numeric) or a text.  str.replace and json.loads are      *)
(* given by what they do to the cell texts of the model.                   *)
(***************************************************************************)
Seven == "<7>"
TagsEnvProd == "{\"environment\": \"prod\"}"
TagsAppWeb == "{'application': 'web'}"
TagsAppWebDq == "{\"application\": \"web\"}"
TagsNotJson == "env=prod"
TagsList == "[\"prod\"]"
TagsApostrophe == "{\"owner\": \"o'neil\"}"
TagsApostropheDq == "{\"owner\": \"o\"neil\"}"

TagCells ==
  {NaN, None, "", Zero, Seven, TagsEnvProd, TagsAppWeb, TagsNotJson, TagsList,
   TagsApostrophe}

\* isinstance(tags_str, str)
IsStr(v) == v \notin {NaN, None, Zero, Seven}

\* tags_str.replace("'", '"')
ReplaceQuotes(t) ==
  CASE t = TagsAppWeb -> TagsAppWebDq
    [] t = TagsApostrophe -> TagsApostropheDq
    [] OTHER -> t

\* json.loads(text): the parsed value, or the exception it raises
json_loads(t) ==
  CASE t = TagsEnvProd -> [exc |-> "none", type |-> "dict", val |-> <<<<"environment", "prod">>>>]
    [] t = TagsAppWebDq -> [exc |-> "none", type |-> "dict", val |-> <<<<"application", "web">>>>]
    [] t = TagsList -> [exc |-> "none", type |-> "list", val |-> <<>>]
    [] OTHER -> [exc |-> "JSONDecodeError", type |-> "none", val |-> <<>>]

\* an except clause that does not cover json's error
parse_tags_catches_TypeError == {"TypeError", "KeyError"}

\* the exceptions parse_tags catches (JSONDecodeError is a ValueError)
parse_tags_catches == {"JSONDecodeError", "ValueError"}

\* [exc, val]: the exception that leaves parse_tags ("none" when it returns)
\* and the dict it returns, as the sequence of its (key, value) items
parse_tags(tags_str) ==
  IF ~Truthy(tags_str) \/ IsNa(tags_str) THEN [exc |-> "none", val |-> <<>>]
  ELSE IF IsStr(tags_str) THEN
    LET tags == json_loads(ReplaceQuotes(tags_str)) IN
      IF tags.exc # "none" THEN
        IF tags.exc \in parse_tags_catches THEN [exc |-> "none", val |-> <<>>]
        ELSE [exc |-> tags.exc, val |-> <<>>]
      ELSE IF tags.type = "dict" THEN [exc |-> "none", val |-> tags.val]
      ELSE [exc |-> "none", val |-> <<>>]
  ELSE [exc |-> "none", val |-> <<>>]

\* dict.get(key, default) on a dict given as its items
RECURSIVE DictGet(_, _, _)
DictGet(d, k, default) ==
  IF Len(d) = 0 THEN default
  ELSE IF Head(d)[1] = k THEN Head(d)[2]
  ELSE DictGet(Tail(d), k, default)

(***************************************************************************)
(* Input rows: the CSV rows of the two files, one record per billing line. *)
(***************************************************************************)
AwsRow ==
  [_source |-> "aws", _provider |-> "Amazon Web Services",
   BillingAccountId |-> "acct-1", BillingAccountName |-> "Main",
   SubAccountId |-> "sub-1", SubAccountName |-> NaN,
   BillingPeriodStart |-> "2024-01-01", BillingPeriodEnd |-> "2024-02-01",
   ServiceName |-> "S3", ServiceCategory |-> "Storage",
   RegionId |-> "us-east-1", RegionName |-> "US East", AvailabilityZone |-> NaN,
   ResourceId |-> "i-0abc", ResourceName |-> "bucket", ResourceType |-> "Bucket",
   ChargeCategory |-> "Usage", ChargeFrequency |-> "Usage-Based",
   ChargeDescription |-> "S3 storage", ChargeClass |-> NaN,
   ChargePeriodStart |-> "2024-01-05", ChargePeriodEnd |-> "2024-01-06",
   EffectiveCost |-> "10", BilledCost |-> "10", ListCost |-> "25",
   ContractedCost |-> "10", BillingCurrency |-> "USD",
   ConsumedQuantity |-> "3", ConsumedUnit |-> "GB",
   PricingQuantity |-> "3", PricingUnit |-> "GB",
   Tags |-> TagsEnvProd,
   x_ServiceCode |-> "AmazonS3", x_UsageType |-> "TimedStorage",
   x_Operation |-> NaN, x_CostCategories |-> NaN,
   x_skumetercategory |-> None, x_skuMeterCategory |-> None,
   x_skudescription |-> None, x_skuDescription |-> None,
   x_resourcegroupname |-> None, x_costcenter |-> None, x_costCenter |-> None,
   x_costallocationrulename |-> None]

\* the same resource, account and charge period as AwsRow, other costs, and
\* another category and name for the same service and resource
AwsRowRepriced ==
  [AwsRow EXCEPT !.EffectiveCost = "-5", !.BilledCost = "25", !.ListCost = NaN,
                 !.ContractedCost = "n/a", !.ServiceCategory = "Compute",
                 !.ResourceName = "renamed", !.Tags = TagsNotJson]

\* a sparse row: no account, no service name, padded resource id, no costs
AwsRowSparse ==
  [AwsRow EXCEPT !.BillingAccountId = " ", !.SubAccountId = NaN,
                 !.BillingPeriodStart = NaN, !.ServiceName = NaN,
                 !.ServiceCategory = NaN, !.RegionId = NaN,
                 !.ResourceId = " i-0abc ", !.ResourceName = NaN,
                 !.ResourceType = NaN, !.ChargeDescription = NaN,
                 !.EffectiveCost = NaN, !.BilledCost = "0",
                 !.BillingCurrency = NaN, !.Tags = TagsList,
                 !.x_ServiceCode = NaN, !.x_CostCategories = "team-a"]

AzureRow ==
  [_source |-> "azure", _provider |-> "Microsoft Azure",
   BillingAccountId |-> "acct-1", BillingAccountName |-> "Contoso",
   SubAccountId |-> NaN, SubAccountName |-> NaN,
   BillingPeriodStart |-> "2024-01-01", BillingPeriodEnd |-> "2024-01-31",
   ServiceName |-> "Blob", ServiceCategory |-> "Storage",
   RegionId |-> NaN, RegionName |-> NaN, AvailabilityZone |-> None,
   ResourceId |-> NaN, ResourceName |-> "disk", ResourceType |-> NaN,
   ChargeCategory |-> "Purchase", ChargeFrequency |-> "One-Time",
   ChargeDescription |-> NaN, ChargeClass |-> NaN,
   ChargePeriodStart |-> "2024-01-05", ChargePeriodEnd |-> "2024-01-06",
   EffectiveCost |-> "0", BilledCost |-> "25", ListCost |-> "25",
   ContractedCost |-> "25", BillingCurrency |-> "USD",
   ConsumedQuantity |-> NaN, ConsumedUnit |-> NaN,
   PricingQuantity |-> "3", PricingUnit |-> "GB",
   Tags |-> TagsAppWeb,
   x_ServiceCode |-> None, x_UsageType |-> None,
   x_Operation |-> None, x_CostCategories |-> None,
   x_skumetercategory |-> "Storage", x_skuMeterCategory |-> None,
   x_skudescription |-> NaN, x_skuDescription |-> None,
   x_resourcegroupname |-> "rg-1", x_costcenter |-> NaN, x_costCenter |-> None,
   x_costallocationrulename |-> "shared-net"]

\* an Azure row with no usable tags and no allocation rule
AzureRowUntagged ==
  [AzureRow EXCEPT !.Tags = NaN, !.x_costallocationrulename = NaN,
                   !.ResourceName = "vm", !.EffectiveCost = "3",
                   !.BillingAccountName = NaN]

CsvRows == {AwsRow, AwsRowRepriced, AwsRowSparse, AzureRow, AzureRowUntagged}

\* the data frames of ingest_all: NRows CSV rows, the AWS rows first
IsAwsFirst(ds) ==
  \A i, j \in 1..Len(ds) : (i < j /\ ds[j]._source = "aws") => ds[i]._source = "aws"

CsvFiles == {ds \in [1..NRows -> CsvRows] : IsAwsFirst(ds)}

\* load_aws_data / load_azure_data: df["_tags"] = df["Tags"].apply(parse_tags)
load_row(r) ==
  [f \in DOMAIN r \cup {"_tags"} |-> IF f = "_tags" THEN parse_tags(r.Tags).val ELSE r[f]]

\* the exception loading raises, "none" when every Tags cell parses
load_exc(ds) ==
  IF \E i \in 1..Len(ds) : parse_tags(ds[i].Tags).exc # "none" THEN "raised" ELSE "none"

load_data(ds) == [i \in 1..Len(ds) |-> load_row(ds[i])]

(***************************************************************************)
(* The graph store.  MERGE (n:Label {key: v}) SET ... matches every node   *)
(* of the label holding the key value and creates one when none matches;   *)
(* SET writes the named properties on every matched node and leaves the    *)
(* others (the embedding among them) as they are.                          *)
(***************************************************************************)
EmptyGraph == [nodes |-> {}, rels |-> {}]

\* clear_database has not been called
NoClears == [calls |-> 0, confirmed |-> 0]

\* the element id the store gives a new node, a new relationship
NewNodeId(g, label, key) ==
  <<label, key, Cardinality({n \in g.nodes : n.label = label /\ n.key = key})>>

NewRelId(g, type, p) ==
  <<type, p[1], p[2],
    Cardinality({r \in g.rels : r.type = type /\ r.src = p[1] /\ r.dst = p[2]})>>

\* MATCH (n:Label {key: v})
Match(g, label, key) == {n \in g.nodes : n.label = label /\ n.key = key}

\* SET n.p = v, ...
SetProps(old, new) ==
  [k \in DOMAIN old \cup DOMAIN new |-> IF k \in DOMAIN new THEN new[k] ELSE old[k]]

\* CREATE (n:Label {key: v}) SET n.p = ...: a node is made whatever exists
CreateNode(g, label, key, props) ==
  [g EXCEPT !.nodes = @ \cup {[id |-> NewNodeId(g, label, key), label |-> label,
                               key |-> key, props |-> props, embedding |-> Null]}]

\* MERGE (n:Label {key: v}) ON CREATE SET n.p = ...: a matched node is left alone
MergeNodeOnCreate(g, label, key, props) ==
  IF Match(g, label, key) = {} THEN CreateNode(g, label, key, props) ELSE g

\* MERGE (n:Label {key: v}) SET n.p = ...
MergeNode(g, label, key, props) ==
  LET m == Match(g, label, key) IN
    IF m = {} THEN
      [g EXCEPT !.nodes = @ \cup {[id |-> NewNodeId(g, label, key), label |-> label,
                                   key |-> key, props |-> props, embedding |-> Null]}]
    ELSE
      [g EXCEPT !.nodes = {IF n \in m THEN [n EXCEPT !.props = SetProps(n.props, props)]
                           ELSE n : n \in g.nodes}]

\* CREATE (a)-[:TYPE]->(b): a relationship is made whatever exists
CreateRelPair(g, type, p) ==
  [g EXCEPT !.rels = @ \cup {[id |-> NewRelId(g, type, p), type |-> type,
                              src |-> p[1], dst |-> p[2]]}]

\* MERGE (a)-[:TYPE]->(b) for one matched pair: a relationship is made when
\* the pair has none of the type
MergeRelPair(g, type, p) ==
  IF \E r \in g.rels : r.type = type /\ r.src = p[1] /\ r.dst = p[2] THEN g
  ELSE [g EXCEPT !.rels = @ \cup {[id |-> NewRelId(g, type, p), type |-> type,
                                   src |-> p[1], dst |-> p[2]]}]

\* MERGE (a)-[:TYPE]->(b) for every matched pair
RECURSIVE MergeRelPairs(_, _, _)
MergeRelPairs(g, type, pairs) ==
  IF pairs = {} THEN g
  ELSE
    LET p == CHOOSE q \in pairs : TRUE
    IN MergeRelPairs(MergeRelPair(g, type, p), type, pairs \ {p})

\* MATCH (a:L1 {k1: v1}), (b:L2 {k2: v2}) MERGE (a)-[:TYPE]->(b)
MergeRel(g, type, slabel, skey, dlabel, dkey) ==
  MergeRelPairs(g, type,
    {<<a.id, b.id>> : a \in Match(g, slabel, skey), b \in Match(g, dlabel, dkey)})

\* one session.run of the ingestion: a node upsert or a relationship merge
NodeRun(label, key, props) ==
  [op |-> "node", label |-> label, key |-> key, props |-> props]

RelRun(type, slabel, skey, dlabel, dkey) ==
  [op |-> "rel", type |-> type, slabel |-> slabel, skey |-> skey,
   dlabel |-> dlabel, dkey |-> dkey]

session_run(g, run) ==
  IF run.op = "node" THEN MergeNode(g, run.label, run.key, run.props)
  ELSE MergeRel(g, run.type, run.slabel, run.skey, run.dlabel, run.dkey)

(***************************************************************************)
(* Node creation.  Each create_* gives [ret, runs]: the id it returns      *)
(* (None when it returns early) and the session.run calls it makes.        *)
(***************************************************************************)
create_billing_account(row) ==
  LET acct_id == safe_str(row.BillingAccountId)
      name == Or(safe_str(row.BillingAccountName), acct_id)
  IN IF ~Truthy(acct_id) THEN [ret |-> None, runs |-> <<>>]
     ELSE [ret |-> acct_id,
           runs |-> <<NodeRun("BillingAccount", acct_id,
                        [billingAccountName |-> name,
                         provider |-> row._source,
                         description |-> "Billing account: " \o name])>>]

create_sub_account(row) ==
  LET sub_id == safe_str(row.SubAccountId)
      name == Or(safe_str(row.SubAccountName), sub_id)
  IN IF ~Truthy(sub_id) THEN [ret |-> None, runs |-> <<>>]
     ELSE [ret |-> sub_id,
           runs |-> <<NodeRun("SubAccount", sub_id,
                        [subAccountName |-> name,
                         description |-> "Sub-account: " \o name])>>]

create_billing_period(row) ==
  LET period_start == safe_str(row.BillingPeriodStart)
      end == Or(safe_str(row.BillingPeriodEnd), "")
  IN IF ~Truthy(period_start) THEN [ret |-> None, runs |-> <<>>]
     ELSE [ret |-> period_start,
           runs |-> <<NodeRun("BillingPeriod", period_start,
                        [end |-> end,
                         description |-> "Billing period: " \o period_start \o " to " \o end])>>]

create_service(row) ==
  LET svc_name == Or(safe_str(row.ServiceName), "Unknown Service")
      category == Or(safe_str(row.ServiceCategory), "Other")
  IN [ret |-> svc_name,
      runs |-> <<NodeRun("Service", svc_name,
                   [serviceCategory |-> category,
                    provider |-> row._source,
                    description |-> svc_name \o " (" \o category \o ") - " \o row._source])>>]

create_location(row) ==
  LET region_id == safe_str(row.RegionId)
      rname == Or(safe_str(row.RegionName), region_id)
  IN IF ~Truthy(region_id) THEN [ret |-> None, runs |-> <<>>]
     ELSE [ret |-> region_id,
           runs |-> <<NodeRun("Location", region_id,
                        [regionName |-> rname,
                         availabilityZone |-> safe_str(row.AvailabilityZone),
                         description |-> "Region: " \o rname])>>]

create_resource(row) ==
  LET rid == safe_str(row.ResourceId)
      resource_id == IF ~Truthy(rid)
                     THEN make_id(<<row.ResourceName, row.ServiceName, row._source>>)
                     ELSE rid
      rname == Or(safe_str(row.ResourceName), "unnamed")
      rtype == Or(safe_str(row.ResourceType), "unknown")
  IN [ret |-> resource_id,
      runs |-> <<NodeRun("Resource", resource_id,
                   [resourceName |-> rname,
                    resourceType |-> rtype,
                    description |-> rtype \o ": " \o rname])>>]

create_charge(row, record_id) ==
  LET charge_id == make_id(<<record_id, row.ChargeCategory, row.ChargeFrequency>>)
      desc == Or(safe_str(row.ChargeDescription), "")
      description == IF Truthy(desc) THEN Trunc500(desc) ELSE ""
  IN [ret |-> charge_id,
      runs |-> <<NodeRun("Charge", charge_id,
                   [chargeCategory |-> Or(safe_str(row.ChargeCategory), "Usage"),
                    chargeFrequency |-> Or(safe_str(row.ChargeFrequency), "Usage-Based"),
                    chargeDescription |-> description,
                    chargeClass |-> safe_str(row.ChargeClass),
                    description |-> description])>>]

create_vendor_attrs(row, record_id, source) ==
  LET attr_id == make_id(<<"vendor", record_id, source>>) IN
    IF source = "aws" THEN
      LET service_code == Or(safe_str(row.x_ServiceCode), "") IN
        [ret |-> attr_id,
         runs |-> <<NodeRun("VendorAttrsAWS", attr_id,
                      [x_ServiceCode |-> service_code,
                       x_UsageType |-> Or(safe_str(row.x_UsageType), ""),
                       x_Operation |-> Or(safe_str(row.x_Operation), ""),
                       provider |-> "aws",
                       description |-> "AWS vendor attrs: " \o service_code])>>]
    ELSE
      LET meter_cat == Or(safe_str(row.x_skumetercategory),
                          Or(safe_str(row.x_skuMeterCategory), ""))
      IN [ret |-> attr_id,
          runs |-> <<NodeRun("VendorAttrsAzure", attr_id,
                       [x_skuMeterCategory |-> meter_cat,
                        x_skuDescription |-> Or(safe_str(row.x_skudescription),
                                                Or(safe_str(row.x_skuDescription), "")),
                        x_resourceGroupName |-> Or(safe_str(row.x_resourcegroupname), ""),
                        x_costCenter |-> Or(safe_str(row.x_costcenter),
                                            Or(safe_str(row.x_costCenter), "")),
                        x_costAllocationRuleName |-> Or(safe_str(row.x_costallocationrulename), ""),
                        provider |-> "azure",
                        description |-> "Azure vendor attrs: " \o meter_cat])>>]

\* ret: the tag ids in the order of tags_dict.items(); runs: one MERGE per tag
create_tags(tags_dict, record_id) ==
  [ret |-> [i \in 1..Len(tags_dict) |->
              make_id(<<"tag", tags_dict[i][1], PyStr(tags_dict[i][2])>>)],
   runs |-> [i \in 1..Len(tags_dict) |->
              NodeRun("Tag", make_id(<<"tag", tags_dict[i][1], PyStr(tags_dict[i][2])>>),
                [key |-> PyStr(tags_dict[i][1]),
                 value |-> PyStr(tags_dict[i][2]),
                 description |-> PyStr(tags_dict[i][1]) \o "=" \o PyStr(tags_dict[i][2])])]]

create_cost_allocation(row) ==
  LET alloc_rule == Or(safe_str(row.x_costallocationrulename), safe_str(row.x_CostCategories))
      alloc_id == make_id(<<"alloc", alloc_rule>>)
  IN IF ~Truthy(alloc_rule) THEN [ret |-> None, runs |-> <<>>]
     ELSE [ret |-> alloc_id,
           runs |-> <<NodeRun("CostAllocation", alloc_id,
                        [allocationRuleName |-> alloc_rule,
                         allocationMethod |-> "Proportional",
                         isSharedCost |-> TRUE,
                         description |-> "Cost allocation: " \o alloc_rule])>>]

(***************************************************************************)
(* create_cost_record_with_relationships: [ret, runs], the record id and   *)
(* the session.run calls of one row in the order the code makes them.      *)
(***************************************************************************)
\* the record id without the row index
cost_record_id_no_idx(row, idx) ==
  make_id(<<row._source, row.BillingAccountId, row.ChargePeriodStart, row.ResourceId>>)

cost_record_id(row, idx) ==
  make_id(<<row._source, PyInt(idx), row.BillingAccountId, row.ChargePeriodStart,
            row.ResourceId>>)

cost_record_props(row) ==
  LET source == row._source
      tags_dict == row._tags
  IN [effectiveCost |-> safe_float(row.EffectiveCost),
      billedCost |-> safe_float(row.BilledCost),
      listCost |-> safe_float(row.ListCost),
      contractedCost |-> safe_float(row.ContractedCost),
      currency |-> Or(safe_str(row.BillingCurrency), "USD"),
      consumedQuantity |-> safe_float(row.ConsumedQuantity),
      consumedUnit |-> safe_str(row.ConsumedUnit),
      pricingQuantity |-> safe_float(row.PricingQuantity),
      pricingUnit |-> safe_str(row.PricingUnit),
      chargePeriodStart |-> safe_str(row.ChargePeriodStart),
      chargePeriodEnd |-> safe_str(row.ChargePeriodEnd),
      source |-> source,
      tagApplication |-> PyStr(DictGet(tags_dict, "application",
                                 DictGet(tags_dict, "Application", ""))),
      tagEnvironment |-> PyStr(DictGet(tags_dict, "environment",
                                 DictGet(tags_dict, "Environment", ""))),
      tagCostCentre |-> PyStr(DictGet(tags_dict, "cost_center",
                                DictGet(tags_dict, "CostCentre", ""))),
      description |-> Upper(source) \o " " \o PyStr(safe_str(row.ServiceName)) \o " "
                        \o PyStr(safe_str(row.ChargeCategory)) \o " $"
                        \o Fmt4f(safe_float(row.EffectiveCost))]

create_cost_record_with_relationships(row, idx) ==
  LET source == row._source
      record_id == cost_record_id(row, idx)
      tags_dict == row._tags
      acct == create_billing_account(row)
      sub == create_sub_account(row)
      period == create_billing_period(row)
      svc == create_service(row)
      region == create_location(row)
      resource == create_resource(row)
      charge == create_charge(row, record_id)
      attr == create_vendor_attrs(row, record_id, source)
      tags == create_tags(tags_dict, record_id)
      alloc == create_cost_allocation(row)
      label == IF source = "aws" THEN "VendorAttrsAWS" ELSE "VendorAttrsAzure"
      Rel(cond, type, dlabel, dkey) ==
        IF cond THEN <<RelRun(type, "CostRecord", record_id, dlabel, dkey)>> ELSE <<>>
  IN [ret |-> record_id,
      runs |->
        <<NodeRun("CostRecord", record_id, cost_record_props(row))>>
        \o acct.runs \o sub.runs \o period.runs \o svc.runs \o region.runs
        \o resource.runs \o charge.runs \o attr.runs \o tags.runs \o alloc.runs
        \o Rel(Truthy(acct.ret), "BELONGS_TO_BILLING_ACCOUNT", "BillingAccount", acct.ret)
        \o Rel(Truthy(sub.ret), "BELONGS_TO_SUBACCOUNT", "SubAccount", sub.ret)
        \o Rel(Truthy(period.ret), "IN_BILLING_PERIOD", "BillingPeriod", period.ret)
        \o Rel(Truthy(charge.ret), "HAS_CHARGE", "Charge", charge.ret)
        \o Rel(Truthy(resource.ret), "INCURRED_BY", "Resource", resource.ret)
        \o (IF Truthy(resource.ret) /\ Truthy(svc.ret)
            THEN <<RelRun("USES_SERVICE", "Resource", resource.ret, "Service", svc.ret)>>
            ELSE <<>>)
        \o (IF Truthy(resource.ret) /\ Truthy(region.ret)
            THEN <<RelRun("DEPLOYED_IN", "Resource", resource.ret, "Location", region.ret)>>
            ELSE <<>>)
        \o Rel(Truthy(attr.ret), "HAS_VENDOR_ATTRS", label, attr.ret)
        \o [i \in 1..Len(tags.ret) |->
              RelRun("HAS_TAG", "CostRecord", record_id, "Tag", tags.ret[i])]
        \o Rel(Truthy(alloc.ret), "ALLOCATED_VIA", "CostAllocation", alloc.ret)]

\* the session.run calls of the row at index idx of all_rows
RowRuns(rws, idx) == create_cost_record_with_relationships(rws[idx + 1], idx).runs

(***************************************************************************)
(* CloudCostRAG.query, not called yet: no local is bound.                  *)
(***************************************************************************)
NoQuery ==
  [pc |-> "idle", question |-> "", top_k |-> 0, intents |-> <<>>, entities |-> {},
   stages |-> <<>>, i |-> 0, results |-> <<>>, queried |-> <<>>,
   vector_raised |-> FALSE, vector_results |-> <<>>,
   families |-> <<>>, graph_results |-> <<>>, context |-> None, llm_calls |-> <<>>,
   answer |-> None, retrieval_method |-> None]

(***************************************************************************)
(* ingest_all.                                                             *)
(***************************************************************************)
NotRunning == phase \in {"idle", "done", "noconn"}

\* enumerate(all_rows)
EnumerateOrder(rws) == [i \in 1..Len(rws) |-> i - 1]

ingestVars == <<rows, order, pos, pc, success, errors, attempts, rowStart, prevErrors>>

\* driver.verify_connectivity() raises: ingest_all returns
IngestAllNoConnection ==
  /\ NotRunning
  /\ runs < MaxRuns
  /\ phase' = "noconn"
  /\ runs' = runs + 1
  /\ UNCHANGED <<graph, files, faults, ingestVars>>
  /\ UNCHANGED otherVars

\* the store is reachable: the files are loaded and the loop begins
IngestAllStart ==
  /\ NotRunning
  /\ runs < MaxRuns
  /\ phase' = IF load_exc(files) = "none" THEN "ingest" ELSE "crashed"
  /\ rows' = load_data(files)
  /\ order' = EnumerateOrder(files)
  /\ pos' = 1
  /\ pc' = 1
  /\ success' = 0
  /\ errors' = 0
  /\ attempts' = [i \in 0..(Len(files) - 1) |-> 0]
  /\ rowStart' = graph
  /\ UNCHANGED <<graph, files, faults, runs, prevErrors>>
  /\ UNCHANGED otherVars

\* a session.run of the current row that is not its last
SessionRun ==
  /\ phase = "ingest"
  /\ pos <= Len(order)
  /\ pc < Len(RowRuns(rows, order[pos]))
  /\ graph' = session_run(graph, RowRuns(rows, order[pos])[pc])
  /\ pc' = pc + 1
  /\ UNCHANGED <<files, rows, order, phase, pos, success, errors, faults, runs,
                 attempts, rowStart, prevErrors>>
  /\ UNCHANGED otherVars

\* the last session.run of the current row: the call returns, success += 1
RowReturns ==
  /\ phase = "ingest"
  /\ pos <= Len(order)
  /\ pc = Len(RowRuns(rows, order[pos]))
  /\ graph' = session_run(graph, RowRuns(rows, order[pos])[pc])
  /\ success' = success + 1
  /\ attempts' = [attempts EXCEPT ![order[pos]] = @ + 1]
  /\ pos' = pos + 1
  /\ pc' = 1
  /\ rowStart' = graph'
  /\ UNCHANGED <<files, rows, order, phase, errors, faults, runs, prevErrors>>
  /\ UNCHANGED otherVars

\* the try around the loop instead of inside it: the first failure ends the loop
RowRaisesEndsLoop ==
  /\ phase = "ingest"
  /\ pos <= Len(order)
  /\ pc <= Len(RowRuns(rows, order[pos]))
  /\ faults < MaxFaults
  /\ faults' = faults + 1
  /\ errors' = errors + 1
  /\ attempts' = [attempts EXCEPT ![order[pos]] = @ + 1]
  /\ pos' = Len(order) + 1
  /\ pc' = 1
  /\ rowStart' = graph
  /\ UNCHANGED <<graph, files, rows, order, phase, success, runs, prevErrors>>
  /\ UNCHANGED otherVars

\* the session.run at pc raises (the store fails): except Exception, errors += 1
RowRaises ==
  /\ phase = "ingest"
  /\ pos <= Len(order)
  /\ pc <= Len(RowRuns(rows, order[pos]))
  /\ faults < MaxFaults
  /\ faults' = faults + 1
  /\ errors' = errors + 1
  /\ attempts' = [attempts EXCEPT ![order[pos]] = @ + 1]
  /\ pos' = pos + 1
  /\ pc' = 1
  /\ rowStart' = graph
  /\ UNCHANGED <<graph, files, rows, order, phase, success, runs, prevErrors>>
  /\ UNCHANGED otherVars

\* the loop is over: the counts are printed, ingest_all returns
IngestAllEnd ==
  /\ phase = "ingest"
  /\ pos > Len(order)
  /\ phase' = "done"
  /\ runs' = runs + 1
  /\ prevErrors' = errors
  /\ UNCHANGED <<graph, files, rows, order, pos, pc, success, errors, faults,
                 attempts, rowStart>>
  /\ UNCHANGED otherVars

Init ==
  /\ graph = EmptyGraph
  /\ files \in CsvFiles
  /\ rows = <<>>
  /\ order = <<>>
  /\ phase = "idle"
  /\ pos = 1
  /\ pc = 1
  /\ success = 0
  /\ errors = 0
  /\ faults = 0
  /\ runs = 0
  /\ attempts = <<>>
  /\ rowStart = EmptyGraph
  /\ prevErrors = 0 - 1
  /\ wpc = <<>>
  /\ restarts = 0
  /\ embRuns = 0
  /\ epc = [stage |-> "none", i |-> 0]
  /\ pending = <<>>
  /\ rag = NoQuery
  /\ indexes = {}
  /\ clears = NoClears
  /\ made = {}

Next ==
  \/ IngestAllNoConnection
  \/ IngestAllStart
  \/ SessionRun
  \/ RowReturns
  \/ RowRaises
  \/ IngestAllEnd

Spec == Init /\ [][Next]_vars

(***************************************************************************)
(* The rows of one input processed in any order, each with its own index:  *)
(* create_cost_record_with_relationships(session, row, idx) called for the *)
(* rows in the order chosen, against an empty store.                       *)
(***************************************************************************)
Orders(n) == {o \in [1..n -> 0..(n - 1)] : \A i, j \in 1..n : o[i] = o[j] => i = j}

OrderedStart ==
  /\ phase = "idle"
  /\ runs = 0
  /\ phase' = "ingest"
  /\ rows' = load_data(files)
  /\ order' \in Orders(Len(files))
  /\ pos' = 1
  /\ pc' = 1
  /\ success' = 0
  /\ errors' = 0
  /\ attempts' = [i \in 0..(Len(files) - 1) |-> 0]
  /\ rowStart' = graph
  /\ UNCHANGED <<graph, files, faults, runs, prevErrors>>
  /\ UNCHANGED otherVars

NextOrder ==
  \/ OrderedStart
  \/ SessionRun
  \/ RowReturns
  \/ IngestAllEnd

SpecOrder == Init /\ [][NextOrder]_vars

(***************************************************************************)
(* Two workers against the shared store, one row each, their session.run   *)
(* calls interleaved; a worker's step sequence may stop partway and is     *)
(* then run again from its first step.                                     *)
(***************************************************************************)
WorkersStart ==
  /\ phase = "idle"
  /\ phase' = "workers"
  /\ rows' = load_data(files)
  /\ order' = EnumerateOrder(files)
  /\ wpc' = [w \in 0..(Len(files) - 1) |-> 1]
  /\ UNCHANGED <<graph, files, pos, pc, success, errors, faults, runs, attempts,
                 rowStart, prevErrors, restarts, embRuns, epc, pending, rag, indexes, clears, made>>

WorkerRun(w) ==
  /\ phase = "workers"
  /\ wpc[w] <= Len(RowRuns(rows, w))
  /\ graph' = session_run(graph, RowRuns(rows, w)[wpc[w]])
  /\ wpc' = [wpc EXCEPT ![w] = @ + 1]
  /\ UNCHANGED <<files, rows, order, phase, pos, pc, success, errors, faults, runs,
                 attempts, rowStart, prevErrors, restarts, embRuns, epc, pending, rag, indexes, clears, made>>

WorkerStopsAndReruns(w) ==
  /\ phase = "workers"
  /\ wpc[w] > 1
  /\ wpc[w] <= Len(RowRuns(rows, w))
  /\ restarts < MaxRestarts
  /\ restarts' = restarts + 1
  /\ wpc' = [wpc EXCEPT ![w] = 1]
  /\ UNCHANGED <<graph, files, rows, order, phase, pos, pc, success, errors, faults,
                 runs, attempts, rowStart, prevErrors, embRuns, epc, pending, rag, indexes, clears, made>>

NextWorkers ==
  \/ WorkersStart
  \/ \E w \in DOMAIN wpc : WorkerRun(w)
  \/ \E w \in DOMAIN wpc : WorkerStopsAndReruns(w)

SpecWorkers == Init /\ [][NextWorkers]_vars

WorkersDone ==
  /\ phase = "workers"
  /\ \A w \in DOMAIN wpc : wpc[w] = Len(RowRuns(rows, w)) + 1

(***************************************************************************)
(* Ingestion as a function: the graph after the rows are ingested          *)
(* completely, one after the other, in a given order.                      *)
(***************************************************************************)
RECURSIVE RunAll(_, _)
RunAll(g, rs) ==
  IF Len(rs) = 0 THEN g
  ELSE LET h == session_run(g, Head(rs))   \* committed before the next call
       IN  IF h = g THEN RunAll(g, Tail(rs)) ELSE RunAll(h, Tail(rs))

RECURSIVE IngestInOrder(_, _, _)
IngestInOrder(g, rws, ord) ==
  IF Len(ord) = 0 THEN g
  ELSE IngestInOrder(RunAll(g, RowRuns(rws, Head(ord))), rws, Tail(ord))

\* every session.run of the rows, in the order the rows are processed
RECURSIVE AllRuns(_, _)
AllRuns(rws, ord) ==
  IF Len(ord) = 0 THEN <<>> ELSE RowRuns(rws, Head(ord)) \o AllRuns(rws, Tail(ord))

(***************************************************************************)
(* Embedding enrichment (run_embeddings).  The embedding model is a        *)
(* function of the text; the vector of a text is written vec(text).        *)
(***************************************************************************)
embed_text(text) == "vec(" \o text \o ")"

embed_texts(texts) == [k \in 1..Len(texts) |-> embed_text(texts[k])]

\* the first entries of the two knowledge tables
FOCUS_COLUMN_DESCRIPTIONS ==
  <<[name |-> "EffectiveCost",
     description |-> "The cost after applying all negotiated discounts, credits, and amortized commitment fees. Use EffectiveCost for analyzing actual cloud spend and cost optimization.",
     standard |-> "FOCUS 1.0", nullable |-> FALSE],
    [name |-> "BilledCost",
     description |-> "The amount charged to the customer as shown on the invoice. May differ from EffectiveCost due to commitment discounts and amortization.",
     standard |-> "FOCUS 1.0", nullable |-> FALSE]>>

ALLOCATION_METHOD_DESCRIPTIONS ==
  <<[name |-> "Proportional",
     description |-> "Allocates shared costs proportionally based on each target's usage or consumption relative to the total. Most accurate for usage-driven shared costs."]>>

\* ingest_focus_knowledge_nodes: the MERGE ... SET calls, in order
KnowledgeRuns ==
  [k \in 1..Len(FOCUS_COLUMN_DESCRIPTIONS) |->
     NodeRun("FOCUSColumn", FOCUS_COLUMN_DESCRIPTIONS[k].name,
             FOCUS_COLUMN_DESCRIPTIONS[k])]
  \o
  [k \in 1..Len(ALLOCATION_METHOD_DESCRIPTIONS) |->
     NodeRun("AllocationMethod", ALLOCATION_METHOD_DESCRIPTIONS[k].name,
             ALLOCATION_METHOD_DESCRIPTIONS[k])]

\* the labels embedded by ingest_focus_knowledge_nodes, in one write each
knowledge_types == <<"FOCUSColumn", "AllocationMethod">>

\* run_embeddings: node_types, embedded by embed_node_type in batches
node_types ==
  <<"CostRecord", "Service", "Charge", "Location", "BillingAccount", "SubAccount",
    "Resource", "VendorAttrsAWS", "VendorAttrsAzure", "CostAllocation", "Tag">>

EmbedTargets == knowledge_types \o node_types

\* WHERE n.description IS NOT NULL AND n.description <> ''
HasText(n) ==
  /\ "description" \in DOMAIN n.props
  /\ n.props.description \notin {None, Null, ""}

\* the query without "AND n.embedding IS NULL"
get_nodes_with_text(g, label) ==
  LET found == {n \in g.nodes : n.label = label /\ HasText(n)}
      k == IF Cardinality(found) < QueryLimit THEN Cardinality(found) ELSE QueryLimit
  IN {[j \in 1..k |-> <<q[j].id, q[j].props.description>>] :
        q \in {f \in [1..k -> found] : \A a, b \in 1..k : f[a] = f[b] => a = b}}

\* get_nodes_needing_embeddings: every list the query can return, the rows
\* (node_id, text) in any order, at most LIMIT of them
get_nodes_needing_embeddings(g, label) ==
  LET found == {n \in g.nodes : n.label = label /\ HasText(n) /\ n.embedding = Null}
      k == IF Cardinality(found) < QueryLimit THEN Cardinality(found) ELSE QueryLimit
  IN {[j \in 1..k |-> <<q[j].id, q[j].props.description>>] :
        q \in {f \in [1..k -> found] : \A a, b \in 1..k : f[a] = f[b] => a = b}}

\* update_node_embeddings: UNWIND $updates ... SET n.embedding = update.embedding
update_node_embeddings(g, label, node_ids, embeddings) ==
  [g EXCEPT !.nodes =
     {IF n.label = label /\ \E k \in 1..Len(node_ids) : node_ids[k] = n.id
      THEN [n EXCEPT !.embedding =
              embeddings[CHOOSE k \in 1..Len(node_ids) :
                           /\ node_ids[k] = n.id
                           /\ \A j \in 1..Len(node_ids) : node_ids[j] = n.id => j <= k]]
      ELSE n : n \in g.nodes}]

EmbedNotRunning == epc.stage \in {"none", "done", "noconn"}

embedVars == <<embRuns, epc, pending>>

ingestAllVars == <<files, rows, order, phase, pos, pc, success, errors, faults, runs,
                   attempts, rowStart, prevErrors, wpc, restarts, rag, indexes, clears, made>>

\* run_embeddings: verify_connectivity raises, the function returns
RunEmbeddingsNoConnection ==
  /\ EmbedNotRunning
  /\ phase # "ingest"
  /\ embRuns < MaxEmbRuns
  /\ epc' = [stage |-> "noconn", i |-> 0]
  /\ embRuns' = embRuns + 1
  /\ UNCHANGED <<graph, pending>>
  /\ UNCHANGED ingestAllVars

\* run_embeddings: the store is reachable, the model is loaded
RunEmbeddingsStart ==
  /\ EmbedNotRunning
  /\ phase # "ingest"
  /\ embRuns < MaxEmbRuns
  /\ epc' = [stage |-> "seed", i |-> 1]
  /\ UNCHANGED <<graph, pending, embRuns>>
  /\ UNCHANGED ingestAllVars

\* ingest_focus_knowledge_nodes: one MERGE of a knowledge node
KnowledgeRun ==
  /\ epc.stage = "seed"
  /\ graph' = session_run(graph, KnowledgeRuns[epc.i])
  /\ epc' = IF epc.i = Len(KnowledgeRuns) THEN [stage |-> "select", i |-> 1]
            ELSE [epc EXCEPT !.i = @ + 1]
  /\ UNCHANGED <<pending, embRuns>>
  /\ UNCHANGED ingestAllVars

\* nodes = get_nodes_needing_embeddings(session, label, text_field); with no
\* nodes the label is done
GetNodes ==
  /\ epc.stage = "select"
  /\ epc.i <= Len(EmbedTargets)
  /\ pending' \in get_nodes_needing_embeddings(graph, EmbedTargets[epc.i])
  /\ epc' = IF Len(pending') = 0 THEN [epc EXCEPT !.i = @ + 1]
            ELSE [epc EXCEPT !.stage = "write"]
  /\ UNCHANGED <<graph, embRuns>>
  /\ UNCHANGED ingestAllVars

\* the nodes written by the next update_node_embeddings: every node of a
\* knowledge label, BATCH_SIZE nodes of the other labels
BatchLen ==
  IF epc.i <= Len(knowledge_types) \/ Len(pending) < BATCH_SIZE THEN Len(pending)
  ELSE BATCH_SIZE

\* embed_texts and update_node_embeddings for one batch
UpdateBatch ==
  /\ epc.stage = "write"
  /\ LET batch == SubSeq(pending, 1, BatchLen)
         batch_ids == [k \in 1..Len(batch) |-> batch[k][1]]
         batch_texts == [k \in 1..Len(batch) |-> batch[k][2]]
     IN graph' = update_node_embeddings(graph, EmbedTargets[epc.i], batch_ids,
                                        embed_texts(batch_texts))
  /\ pending' = SubSeq(pending, BatchLen + 1, Len(pending))
  /\ epc' = IF Len(pending') = 0 THEN [stage |-> "select", i |-> epc.i + 1] ELSE epc
  /\ UNCHANGED embRuns
  /\ UNCHANGED ingestAllVars

\* every label is done: driver.close(), run_embeddings returns
RunEmbeddingsEnd ==
  /\ epc.stage = "select"
  /\ epc.i > Len(EmbedTargets)
  /\ epc' = [stage |-> "done", i |-> 0]
  /\ embRuns' = embRuns + 1
  /\ UNCHANGED <<graph, pending>>
  /\ UNCHANGED ingestAllVars

\* construction runs and embedding runs, one run at a time
NextEmbed ==
  \/ EmbedNotRunning /\ IngestAllStart
  \/ SessionRun
  \/ RowReturns
  \/ RowRaises
  \/ IngestAllEnd
  \/ RunEmbeddingsNoConnection
  \/ RunEmbeddingsStart
  \/ KnowledgeRun
  \/ GetNodes
  \/ UpdateBatch
  \/ RunEmbeddingsEnd

SpecEmbed == Init /\ [][NextEmbed]_vars

(***************************************************************************)
(* Intent and entity extraction (rag/pipeline.py).  Texts are strings of   *)
(* ASCII characters.  Every pattern of INTENT_PATTERNS is a literal; every *)
(* pattern of ENTITY_PATTERNS is an alternation of \bword\b literals      *)
(* searched with re.IGNORECASE.                                            *)
(***************************************************************************)
UpperCaseLetters == "ABCDEFGHIJKLMNOPQRSTUVWXYZ"
LowerCaseLetters == "abcdefghijklmnopqrstuvwxyz"
DecimalDigits == "0123456789"

CharAt(s, i) == SubSeq(s, i, i)

Chars(s) == {CharAt(s, i) : i \in 1..Len(s)}

\* \w
IsWordChar(c) ==
  c \in Chars(UpperCaseLetters) \cup Chars(LowerCaseLetters) \cup Chars(DecimalDigits)
          \cup {"_"}

LowerChar(c) ==
  IF c \in Chars(UpperCaseLetters)
  THEN CharAt(LowerCaseLetters, CHOOSE i \in 1..Len(UpperCaseLetters) :
                                  CharAt(UpperCaseLetters, i) = c)
  ELSE c

\* the string as it is
LowerAsIs(s) == s

\* str.lower()
RECURSIVE Lower(_)
Lower(s) ==
  IF Len(s) = 0 THEN ""
  ELSE IF Len(s) = 1 THEN LowerChar(s)
  ELSE Lower(SubSeq(s, 1, Len(s) \div 2)) \o Lower(SubSeq(s, Len(s) \div 2 + 1, Len(s)))

\* the positions where the literal p occurs in s
Occurrences(p, s) == {i \in 1..(Len(s) - Len(p) + 1) : SubSeq(s, i, i + Len(p) - 1) = p}

\* re.search(p, s) for a literal p
re_search(p, s) == Occurrences(p, s) # {}

\* \b at the position before character i of s
WordBoundary(s, i) ==
  (i >= 2 /\ i - 1 <= Len(s) /\ IsWordChar(CharAt(s, i - 1)))
    # (i >= 1 /\ i <= Len(s) /\ IsWordChar(CharAt(s, i)))

\* the search without re.IGNORECASE
re_search_word_cased(w, s) ==
  \E i \in Occurrences(w, s) : WordBoundary(s, i) /\ WordBoundary(s, i + Len(w))

\* re.search(r"\bw\b", s, re.IGNORECASE) for a literal w
re_search_word(w, s) ==
  \E i \in Occurrences(Lower(w), Lower(s)) :
    WordBoundary(s, i) /\ WordBoundary(s, i + Len(w))

INTENT_PATTERNS ==
  <<[k |-> "cost_analysis",
     patterns |-> <<"cost", "spend", "expensive", "price", "billing", "billed",
                    "effective", "total">>],
    [k |-> "service_comparison",
     patterns |-> <<"compare", "vs", "versus", "difference", "equivalent", "similar">>],
    [k |-> "commitment_analysis",
     patterns |-> <<"commitment", "reservation", "savings plan", "utilization",
                    "unused", "reserved">>],
    [k |-> "optimization",
     patterns |-> <<"optimiz", "reduc", "sav", "rightsiz", "recommend">>],
    [k |-> "schema_query",
     patterns |-> <<"focus column", "standard", "vendor", "x_", "spec", "definition",
                    "what is", "explain">>],
    [k |-> "tag_query",
     patterns |-> <<"tag", "application", "environment", "production">>],
    [k |-> "allocation_query",
     patterns |-> <<"alloc", "shared cost", "proportion", "split">>]>>

ENTITY_PATTERNS ==
  <<[k |-> "aws", p |-> <<"AWS", "Amazon", "EC2", "S3", "Lambda", "RDS">>],
    [k |-> "azure", p |-> <<"Azure", "Microsoft", "Blob", "Virtual Machine">>],
    [k |-> "compute", p |-> <<"EC2", "Virtual Machine", "compute", "instance">>],
    [k |-> "storage", p |-> <<"S3", "Blob", "storage", "EBS">>],
    [k |-> "production", p |-> <<"production", "prod">>],
    [k |-> "charge_purchase", p |-> <<"purchase", "commitment", "reservation">>]>>

\* the values of a list, the keys of a dict
Range(f) == {f[x] : x \in DOMAIN f}

extract_intent(query) ==
  LET q == Lower(query)
      Matches(e) == \E x \in DOMAIN e.patterns : re_search(e.patterns[x], q)
      matched == SelectSeq(INTENT_PATTERNS, Matches)
      intents == [x \in DOMAIN matched |-> matched[x].k]
  IN IF Len(intents) = 0 THEN <<"general">> ELSE intents

\* the keys of the dict returned (every value is True)
extract_entities(query) ==
  {e.k : e \in {f \in Range(ENTITY_PATTERNS) :
                  \E x \in DOMAIN f.p : re_search_word(f.p[x], query)}}

(***************************************************************************)
(* The questions asked and the top_k values passed.                        *)
(***************************************************************************)
QuestionCompare == "Compare storage costs between AWS and Azure"
QuestionComparePlural == "Please compare storage costs between AWS and Azures"
QuestionCompareUpper == "COMPARE STORAGE COSTS BETWEEN AWS AND AZURE?"
QuestionGeneral == "Hello there"
QuestionDoubleCounting ==
  "Which charge categories must be excluded to avoid double counting?"
QuestionCommitment ==
  "When calculating commitment utilization using CommitmentDiscountQuantity, which charge categories must be excluded to avoid double counting?"
QuestionPurchase == "Do purchase charges cause double counting of my costs?"
QuestionProduction == "WHAT IS the PRODUCTION tag spend?"
QuestionFindCompute == "Find all AWS compute services"

Questions ==
  {QuestionCompare, QuestionComparePlural, QuestionDoubleCounting, QuestionCommitment,
   QuestionPurchase, QuestionProduction, QuestionCompareUpper, QuestionGeneral,
   QuestionFindCompute, ""}

TopKs == 1..MaxTopK

(***************************************************************************)
(* Result lists.  A result is a dict (a record); a score is written in     *)
(* hundredths (0.95 is 95).                                                *)
(***************************************************************************)
PrefixLen == 100
ContextEntries == 20

\* r.get(k, default)
Get(r, k, default) == IF k \in DOMAIN r THEN r[k] ELSE default

\* x.get("score", 0)
ScoreOf(r) == Get(r, "score", 0)

\* (r.get("text") or "")[:100]
PrefixKey(r) ==
  LET text == Or(Get(r, "text", None), "")
  IN SubSeq(text, 1, IF Len(text) < PrefixLen THEN Len(text) ELSE PrefixLen)

\* xs[:n]
Take(xs, n) == SubSeq(xs, 1, IF Len(xs) < n THEN Len(xs) ELSE n)

\* the list left as it is
Unsorted(xs) == xs

\* list.sort(key=score, reverse=True) / sorted(...): stable, equal scores keep
\* their order
RECURSIVE InsertByScore(_, _)
InsertByScore(sorted, x) ==
  IF Len(sorted) = 0 THEN <<x>>
  ELSE IF ScoreOf(sorted[Len(sorted)]) >= ScoreOf(x) THEN Append(sorted, x)
  ELSE Append(InsertByScore(SubSeq(sorted, 1, Len(sorted) - 1), x), sorted[Len(sorted)])

RECURSIVE SortByScore(_)
SortByScore(xs) ==
  IF Len(xs) = 0 THEN <<>>
  ELSE InsertByScore(SortByScore(SubSeq(xs, 1, Len(xs) - 1)), xs[Len(xs)])

\* the loop of vector_search over the sorted results: seen, unique
RECURSIVE UniqueByPrefix(_, _)
UniqueByPrefix(xs, seen) ==
  IF Len(xs) = 0 THEN <<>>
  ELSE IF PrefixKey(Head(xs)) \notin seen
       THEN <<Head(xs)>> \o UniqueByPrefix(Tail(xs), seen \cup {PrefixKey(Head(xs))})
       ELSE UniqueByPrefix(Tail(xs), seen)

\* the loop without the test on seen
WithText(xs, seen) == SelectSeq(xs, LAMBDA r : Truthy(Get(r, "text", None)))

\* the loop of assemble_context: a result without text is dropped as well
RECURSIVE UniqueWithText(_, _)
UniqueWithText(xs, seen) ==
  IF Len(xs) = 0 THEN <<>>
  ELSE IF PrefixKey(Head(xs)) \notin seen /\ Truthy(Get(Head(xs), "text", None))
       THEN <<Head(xs)>> \o UniqueWithText(Tail(xs), seen \cup {PrefixKey(Head(xs))})
       ELSE UniqueWithText(Tail(xs), seen)

(***************************************************************************)
(* vector_search.  The similarity index of a label is given by its         *)
(* answers: a lookup returns at most k hits of the label in non-increasing *)
(* score order, or raises (the index is absent).                           *)
(***************************************************************************)
targets ==
  <<[label |-> "Service", text_field |-> "serviceName"],
    [label |-> "Charge", text_field |-> "chargeDescription"],
    [label |-> "FOCUSColumn", text_field |-> "description"],
    [label |-> "AllocationMethod", text_field |-> "description"]>>

\* a text of one hundred characters
HundredChars ==
  "The amount charged to the customer as shown on the invoice for the usage of the storage service in t"

\* the rows an index can yield: text is node.<text_field>
IndexHits ==
  {[label |-> "Service", text |-> "S3", description |-> "S3 (Storage) - aws", score |-> 90],
   [label |-> "Service", text |-> HundredChars \o "his region",
    description |-> HundredChars \o "his region (Storage) - aws", score |-> 93],
   [label |-> "Charge", text |-> HundredChars \o "he month", description |-> "", score |-> 95],
   [label |-> "Charge", text |-> "", description |-> "", score |-> 99],
   [label |-> "FOCUSColumn", text |-> HundredChars \o "his period",
    description |-> HundredChars \o "his period", score |-> 97],
   [label |-> "AllocationMethod", text |-> "Proportional", description |-> "Proportional",
    score |-> 90]}

\* f"{label.lower()}_embedding": the index a target is looked up in
VectorIndexName(label) == Lower(label) \o "_embedding"

\* CALL db.index.vector.queryNodes(index, $k, $embedding) ... ORDER BY score DESC:
\* every answer the index of the label can give
queryNodes(label, k) ==
  LET hits == {h \in IndexHits : h.label = label}
  IN UNION {{q \in [1..n -> hits] :
               \A a, b \in 1..n : a < b => q[a] # q[b] /\ q[a].score >= q[b].score}
            : n \in 0..(IF Cardinality(hits) < k THEN Cardinality(hits) ELSE k)}

\* results.append({...}) for the rows of one answer
AppendRows(results, found) ==
  results \o [x \in DOMAIN found |->
                [label |-> found[x].label,
                 text |-> Or(found[x].text, found[x].description),
                 score |-> found[x].score,
                 source |-> "vector"]]

\* the end of vector_search: sort, first of each prefix, unique[:top_k]
vector_search_return(results, top_k) ==
  Take(UniqueByPrefix(SortByScore(results), {}), top_k)

(***************************************************************************)
(* assemble_context.                                                       *)
(***************************************************************************)
\* str.upper()
UpperChar(c) ==
  IF c \in Chars(LowerCaseLetters)
  THEN CharAt(UpperCaseLetters, CHOOSE i \in 1..Len(LowerCaseLetters) :
                                  CharAt(LowerCaseLetters, i) = c)
  ELSE c

RECURSIVE str_upper(_)
str_upper(s) ==
  IF Len(s) = 0 THEN ""
  ELSE IF Len(s) = 1 THEN UpperChar(s)
  ELSE str_upper(SubSeq(s, 1, Len(s) \div 2))
         \o str_upper(SubSeq(s, Len(s) \div 2 + 1, Len(s)))

\* f"{score:.2f}" of a score in hundredths
Fmt2fScore(x) ==
  IntStr(x \div 100) \o "." \o Digit((x % 100) \div 10) \o Digit(x % 10)

\* unique[:20]: the results that are rendered, in the order rendered
assemble_entries(vector_results, graph_results) ==
  Take(UniqueWithText(SortByScore(vector_results \o graph_results), {}), ContextEntries)

\* one part: f"{i}. {prov}\n   {text}"
ContextPart(i, r) ==
  NatStr(i) \o ". [" \o str_upper(Get(r, "source", "unknown")) \o "/" \o Get(r, "label", "")
    \o " | " \o Get(r, "path", "") \o " | relevance:" \o Fmt2fScore(ScoreOf(r)) \o "]"
    \o "\n   " \o Get(r, "text", "")

\* sep.join(parts)
RECURSIVE Join(_, _)
Join(sep, parts) ==
  IF Len(parts) = 0 THEN ""
  ELSE IF Len(parts) = 1 THEN parts[1]
  ELSE parts[1] \o sep \o Join(sep, Tail(parts))

assemble_context(vector_results, graph_results) ==
  LET unique == assemble_entries(vector_results, graph_results)
  IN Join("\n\n", [i \in DOMAIN unique |-> ContextPart(i, unique[i])])

\* no two entries of es share their first hundred characters
NoSharedPrefix(es) ==
  \A a, b \in DOMAIN es : a # b => PrefixKey(es[a]) # PrefixKey(es[b])

\* the scores of es never increase
NonIncreasingScore(es) ==
  \A a, b \in DOMAIN es : a < b => ScoreOf(es[a]) >= ScoreOf(es[b])

\* the context rendered from the entries es, one numbered part each
Rendered(es) == Join("\n\n", [i \in DOMAIN es |-> ContextPart(i, es[i])])

(***************************************************************************)
(* graph_search.  Each query family is one session.run; its answer is the  *)
(* list of rows the Cypher yields over the graph, in any order the ORDER   *)
(* BY clause allows.                                                       *)
(***************************************************************************)
NodeOf(g, id) == CHOOSE n \in g.nodes : n.id = id

\* MATCH (a:L1)-[:TYPE]->(b:L2)
Pattern(g, slabel, type, dlabel) ==
  {<<NodeOf(g, r.src), NodeOf(g, r.dst)>> :
     r \in {x \in g.rels : /\ x.type = type
                           /\ x.src[1] = slabel
                           /\ x.dst[1] = dlabel}}

\* MATCH (cr:CostRecord)-[:INCURRED_BY]->(r:Resource)-[:USES_SERVICE]->(s:Service)
ServicePaths(g) ==
  {<<ab[1][1], ab[1][2], ab[2][2]>> :
     ab \in {x \in Pattern(g, "CostRecord", "INCURRED_BY", "Resource")
                     \X Pattern(g, "Resource", "USES_SERVICE", "Service") :
              x[1][2] = x[2][1]}}

\* a set as a list, in one of the orders it can be listed
SetToSeq(S) ==
  CHOOSE q \in [1..Cardinality(S) -> S] : \A a, b \in 1..Cardinality(S) : q[a] = q[b] => a = b

RECURSIVE SumSeq(_)
SumSeq(xs) == IF Len(xs) = 0 THEN 0 ELSE Head(xs) + SumSeq(Tail(xs))

\* SUM(cr.<field>) over matched paths, cr the first node of a path
SumOf(paths, field) ==
  LET q == SetToSeq(paths) IN SumSeq([x \in DOMAIN q |-> q[x][1].props[field]])

\* the orders of a set of rows that ORDER BY <field> DESC allows
OrderByDesc(S, field) ==
  {q \in [1..Cardinality(S) -> S] :
     /\ \A a, b \in 1..Cardinality(S) : q[a] = q[b] => a = b
     /\ \A a, b \in 1..Cardinality(S) : a < b => q[a][field] >= q[b][field]}

\* the orders of a set of rows when the query has no ORDER BY
AnyOrder(S) ==
  {q \in [1..Cardinality(S) -> S] : \A a, b \in 1..Cardinality(S) : q[a] = q[b] => a = b}

\* the characters of the texts ordered, in code point order
CodePoints ==
  " !#$%&()*+,-./0123456789:;<=>?@ABCDEFGHIJKLMNOPQRSTUVWXYZ[]^_abcdefghijklmnopqrstuvwxyz{|}~"

CodePoint(c) == CHOOSE i \in 1..Len(CodePoints) : CharAt(CodePoints, i) = c

StrLess(a, b) ==
  \E i \in 1..(Len(b)) :
    /\ SubSeq(a, 1, i - 1) = SubSeq(b, 1, i - 1)
    /\ (Len(a) < i \/ CodePoint(CharAt(a, i)) < CodePoint(CharAt(b, i)))

\* f"{x:.2f}" of a whole number
Fmt2f(x) == IntStr(x) \o ".00"

\* the snippets of a family for the rows of an answer
Snippets(answer, path, score, Text(_)) ==
  [x \in DOMAIN answer |->
     [source |-> "graph", path |-> path, text |-> Text(answer[x]), score |-> score]]

\* family 1: top services by cost
CostByService(g, entities) ==
  LET provider_filter ==
        IF "aws" \in entities /\ "azure" \notin entities THEN {"aws"}
        ELSE IF "azure" \in entities /\ "aws" \notin entities THEN {"azure"}
        ELSE {"aws", "azure"}
      paths == {p \in ServicePaths(g) : /\ p[1].props.effectiveCost > 0
                                        /\ p[1].props.source \in provider_filter}
      Group(p) == <<p[3].key, p[3].props.serviceCategory, p[1].props.source>>
      found == {[service |-> k[1], category |-> k[2], provider |-> k[3],
                 total_cost |-> SumOf({p \in paths : Group(p) = k}, "effectiveCost"),
                 records |-> Cardinality({p \in paths : Group(p) = k})] :
                k \in {Group(p) : p \in paths}}
      Text(r) == "Service '" \o r.service \o "' (" \o r.category \o ") on "
                   \o Upper(r.provider) \o ": total cost $" \o Fmt4f(r.total_cost)
                   \o " across " \o NatStr(r.records) \o " records"
  IN {Snippets(Take(q, 10), "CostRecord->Resource->Service", 90, Text) :
        q \in OrderByDesc(found, "total_cost")}

\* family 2: production-tagged costs
CostByProductionTag(g) ==
  LET paths == {p \in ServicePaths(g) : re_search("prod", Lower(p[1].props.tagEnvironment))}
      Group(p) == <<p[3].key, p[1].props.source>>
      found == {[service |-> k[1], provider |-> k[2],
                 total_cost |-> SumOf({p \in paths : Group(p) = k}, "effectiveCost"),
                 count |-> Cardinality({p \in paths : Group(p) = k})] :
                k \in {Group(p) : p \in paths}}
      Text(r) == "Production tag: '" \o r.service \o "' on " \o Upper(r.provider)
                   \o " costs $" \o Fmt4f(r.total_cost) \o " (" \o NatStr(r.count)
                   \o " records)"
  IN {Snippets(Take(q, 5), "CostRecord[env=prod]->Resource->Service", 85, Text) :
        q \in OrderByDesc(found, "total_cost")}

\* family 3: storage costs per provider
StorageByProvider(g) ==
  LET paths == {p \in ServicePaths(g) :
                  re_search("storage", Lower(p[3].props.serviceCategory))}
      found == {[provider |-> k,
                 total_cost |-> SumOf({p \in paths : p[1].props.source = k}, "effectiveCost"),
                 records |-> Cardinality({p \in paths : p[1].props.source = k}),
                 services |-> Take(SetToSeq({p[3].key : p \in {x \in paths :
                                               x[1].props.source = k}}), 3)] :
                k \in {p[1].props.source : p \in paths}}
      Text(r) == "Storage on " \o Upper(r.provider) \o ": $" \o Fmt4f(r.total_cost)
                   \o " total, " \o NatStr(r.records) \o " records. Services: "
                   \o Join(", ", r.services)
  IN {Snippets(q, "CostRecord->Resource->Service[Storage]", 88, Text) :
        q \in {o \in AnyOrder(found) :
                 \A a, b \in DOMAIN o : a < b => StrLess(o[a].provider, o[b].provider)}}

\* family 4: commitment purchases
PurchasesByProvider(g) ==
  LET pairs == {p \in Pattern(g, "CostRecord", "HAS_CHARGE", "Charge") :
                  p[2].props.chargeCategory = "Purchase"}
      found == {[provider |-> k,
                 billed |-> SumOf({p \in pairs : p[1].props.source = k}, "billedCost"),
                 effective |-> SumOf({p \in pairs : p[1].props.source = k}, "effectiveCost"),
                 count |-> Cardinality({p \in pairs : p[1].props.source = k})] :
                k \in {p[1].props.source : p \in pairs}}
      Text(r) == "Commitment purchases on " \o Upper(r.provider) \o ": Billed=$"
                   \o Fmt2f(r.billed) \o ", Effective=$" \o Fmt2f(r.effective)
                   \o ". WARNING: Including Purchase charges with Usage causes double-counting."
  IN {Snippets(q, "CostRecord[Purchase]->Charge", 95, Text) : q \in AnyOrder(found)}

\* family 5: the FOCUS columns
FocusColumns(g) ==
  LET found == {[name |-> n.key, description |-> n.props.description,
                 standard |-> n.props.standard] :
                n \in {m \in g.nodes : m.label = "FOCUSColumn"}}
      Before(a, b) == \/ StrLess(a.standard, b.standard)
                      \/ a.standard = b.standard /\ StrLess(a.name, b.name)
      Text(r) == "[" \o r.standard \o "] " \o r.name \o ": " \o r.description
  IN {Snippets(Take(q, 15), "FOCUSColumn", 92, Text) :
        q \in {o \in AnyOrder(found) : \A a, b \in DOMAIN o : a < b => Before(o[a], o[b])}}

\* family 6: totals per charge category
CostByChargeCategory(g) ==
  LET pairs == Pattern(g, "CostRecord", "HAS_CHARGE", "Charge")
      Group(p) == <<p[2].props.chargeCategory, p[1].props.source>>
      found == {[category |-> k[1], provider |-> k[2],
                 total |-> SumOf({p \in pairs : Group(p) = k}, "effectiveCost"),
                 billed |-> SumOf({p \in pairs : Group(p) = k}, "billedCost")] :
                k \in {Group(p) : p \in pairs}}
      Text(r) == "Charge category '" \o r.category \o "' on " \o Upper(r.provider)
                   \o ": EffectiveCost=$" \o Fmt4f(r.total) \o ", BilledCost=$"
                   \o Fmt4f(r.billed)
  IN {Snippets(q, "CostRecord->Charge[category]", 87, Text) :
        q \in OrderByDesc(found, "total")}

\* the families of graph_search in the order they run
Families == 1..6

\* the if before each family
Applies(f, intents, entities) ==
  LET has(k) == k \in Range(intents)
  IN CASE f = 1 -> has("cost_analysis") \/ has("service_comparison")
       [] f = 2 -> "production" \in entities \/ has("tag_query")
       [] f = 3 -> "storage" \in entities \/ has("service_comparison")
       [] f = 4 -> has("commitment_analysis")
       [] f = 5 -> has("schema_query")
       [] f = 6 -> has("cost_analysis") \/ has("commitment_analysis")

\* the lists of snippets the family can append
FamilyAnswers(f, g, entities) ==
  CASE f = 1 -> CostByService(g, entities)
    [] f = 2 -> CostByProductionTag(g)
    [] f = 3 -> StorageByProvider(g)
    [] f = 4 -> PurchasesByProvider(g)
    [] f = 5 -> FocusColumns(g)
    [] f = 6 -> CostByChargeCategory(g)

(***************************************************************************)
(* Schema setup (graph/schema.py).  Constraints and property indexes do    *)
(* not change what the other operations read or write; the vector indexes  *)
(* decide whether a similarity lookup can answer.                          *)
(***************************************************************************)
\* setup_vector_indexes: the indexes its statements create
DeclaredVectorIndexes ==
  {"cost_record_embedding", "service_embedding", "charge_embedding", "location_embedding"}

\* run_setup: setup_constraints, setup_indexes, setup_vector_indexes.  Each
\* CREATE ... IF NOT EXISTS is in its own try: a statement that raises is
\* skipped, the others run.
RunSetup ==
  /\ phase # "ingest"
  /\ EmbedNotRunning
  /\ \E skipped \in SUBSET DeclaredVectorIndexes :
       /\ faults + Cardinality(skipped) <= MaxFaults
       /\ faults' = faults + Cardinality(skipped)
       /\ indexes' = indexes \cup (DeclaredVectorIndexes \ skipped)
  /\ UNCHANGED <<graph, files, rows, order, phase, pos, pc, success, errors, runs,
                 attempts, rowStart, prevErrors, wpc, restarts, embRuns, epc, pending,
                 rag, clears, made>>

(***************************************************************************)
(* call_llm.  LLM_PROVIDER is read from the environment; the backend       *)
(* either answers or raises e.                                             *)
(***************************************************************************)
LLM_PROVIDERS == {"groq", "ollama", "anthropic", "openai", "none"}

BackendOutcomes ==
  {[ok |-> TRUE, text |-> "Use EffectiveCost."],
   [ok |-> FALSE, e |-> "Connection refused"]}

Prompt(question, context) ==
  "Based on the following cloud cost knowledge graph context:\n\n" \o context
    \o "\n\n---\n\nQuestion: " \o question
    \o "\n\nProvide a comprehensive, data-backed answer."

\* the except branches without the context
call_llm_message_only(provider, question, context, outcome) ==
  IF provider \in {"groq", "ollama", "anthropic", "openai"}
  THEN IF outcome.ok THEN outcome.text ELSE "LLM error: " \o outcome.e
  ELSE "[No LLM configured]"

call_llm(provider, question, context, outcome) ==
  CASE provider = "groq" ->
         IF outcome.ok THEN outcome.text
         ELSE "Groq error: " \o outcome.e \o "\n\n"
                \o "Check your GROQ_API_KEY in .env\n"
                \o "Get a free key at: https://console.groq.com\n\n"
                \o "--- Retrieved context ---\n" \o context
    [] provider = "ollama" ->
         IF outcome.ok THEN outcome.text
         ELSE "Ollama error: " \o outcome.e \o "\n\n--- Retrieved context ---\n" \o context
    [] provider = "anthropic" ->
         IF outcome.ok THEN outcome.text
         ELSE "Anthropic error: " \o outcome.e \o "\n\n" \o context
    [] provider = "openai" ->
         IF outcome.ok THEN outcome.text
         ELSE "OpenAI error: " \o outcome.e \o "\n\n" \o context
    [] OTHER -> "[No LLM configured]\n\n" \o context

(***************************************************************************)
(* CloudCostRAG.query.  The call stops at each request it makes: the       *)
(* lookups of vector_search, the query families of graph_search, the       *)
(* backend call of call_llm.  What the code does between two requests is   *)
(* part of the step of the first.                                          *)
(***************************************************************************)
NoDataPlaceholder == "No relevant data found in the knowledge graph for this query."

storeVars == <<graph, files, rows, order, phase, pos, pc, success, errors, runs,
               attempts, rowStart, prevErrors, wpc, restarts, embRuns, epc, pending,
               indexes, clears, made>>

\* an elif chain: graph_search ends at the first family whose if fails
NextFamilyUntilSkipped(f, intents, entities) ==
  IF f \in Families /\ Applies(f, intents, entities) THEN f ELSE 7

\* the first family from f on whose if holds, 7 when there is none
NextFamily(f, intents, entities) ==
  IF \E x \in Families : x >= f /\ Applies(x, intents, entities)
  THEN CHOOSE x \in Families :
         /\ x >= f /\ Applies(x, intents, entities)
         /\ \A y \in Families : (y >= f /\ Applies(y, intents, entities)) => x <= y
  ELSE 7

\* the context handed on as assemble_context returned it
AfterGraphSearchAsAssembled(r) ==
  [r EXCEPT !.pc = "llm", !.i = 0, !.stages = Append(@, "assemble_context"),
            !.context = assemble_context(r.vector_results, r.graph_results)]

\* graph_search has returned: assemble_context, the placeholder, then call_llm
AfterGraphSearch(r) ==
  LET context == assemble_context(r.vector_results, r.graph_results)
  IN [r EXCEPT !.pc = "llm", !.i = 0, !.stages = Append(@, "assemble_context"),
               !.context = IF context = "" THEN NoDataPlaceholder ELSE context]

\* graph_search from family f on: up to the next session.run
GraphSearchFrom(r, f) ==
  LET nf == NextFamily(f, r.intents, r.entities)
  IN IF nf \in Families THEN [r EXCEPT !.pc = "graph", !.i = nf]
     ELSE AfterGraphSearch(r)

\* vector_search has returned, or raised into the except of query
AfterVectorSearch(r, vector_results) ==
  GraphSearchFrom([r EXCEPT !.vector_results = vector_results,
                            !.stages = Append(@, "graph_search")], 1)

\* the rows of a lookup as vector_search appends them
Rows(found) ==
  [x \in DOMAIN found |->
     [label |-> found[x].label,
      text |-> Or(found[x].text, found[x].description),
      score |-> found[x].score,
      source |-> "vector"]]

\* vector_search after the lookup of target i, which appended the rows found
\* and then raised or not
AfterLookup(r, found, raised) ==
  LET q == Append(r.queried, [label |-> targets[r.i].label, raised |-> raised,
                              found |-> Rows(found)])
      results == AppendRows(r.results, found)
  IN IF r.i < Len(targets)
     THEN [r EXCEPT !.i = @ + 1, !.results = results, !.queried = q]
     ELSE AfterVectorSearch([r EXCEPT !.results = results, !.queried = q],
                            vector_search_return(results, r.top_k))

\* query(question, top_k): extract_intent, extract_entities, into vector_search
QueryStart ==
  /\ rag.pc = "idle"
  /\ phase \in {"idle", "done"}
  /\ \E question \in Questions, top_k \in TopKs :
       rag' = [NoQuery EXCEPT !.pc = "vector", !.question = question, !.top_k = top_k,
                              !.intents = extract_intent(question),
                              !.entities = extract_entities(question),
                              !.stages = <<"vector_search">>,
                              !.i = 1]
  /\ UNCHANGED <<storeVars, faults>>

\* self.model, get_embedding or driver.session() raises and query lets it pass
VectorSearchRaisesUncaught ==
  /\ rag.pc = "vector"
  /\ rag.i = 1
  /\ faults < MaxFaults
  /\ faults' = faults + 1
  /\ rag' = [rag EXCEPT !.pc = "raised", !.vector_raised = TRUE]
  /\ UNCHANGED storeVars

\* self.model, get_embedding or driver.session() raises: except Exception in
\* query, vector_results stays []
VectorSearchRaises ==
  /\ rag.pc = "vector"
  /\ rag.i = 1
  /\ faults < MaxFaults
  /\ faults' = faults + 1
  /\ rag' = AfterVectorSearch([rag EXCEPT !.vector_raised = TRUE], <<>>)
  /\ UNCHANGED storeVars

\* the lookup of target i answers, every row is appended
TargetLookup ==
  /\ rag.pc = "vector"
  /\ VectorIndexName(targets[rag.i].label) \in indexes
  /\ \E found \in queryNodes(targets[rag.i].label, rag.top_k) :
       rag' = AfterLookup(rag, found, FALSE)
  /\ UNCHANGED <<storeVars, faults>>

\* the lookup of target i raises and nothing catches it inside vector_search
TargetLookupRaisesUncaught ==
  /\ rag.pc = "vector"
  /\ faults < MaxFaults
  /\ faults' = faults + 1
  /\ \E found \in queryNodes(targets[rag.i].label, rag.top_k) :
       /\ found = <<>> \/ VectorIndexName(targets[rag.i].label) \in indexes
       /\ rag' = AfterVectorSearch(
                [rag EXCEPT !.vector_raised = TRUE,
                            !.results = AppendRows(@, found),
                            !.queried = Append(@, [label |-> targets[rag.i].label,
                                                   raised |-> TRUE,
                                                   found |-> Rows(found)])],
                <<>>)
  /\ UNCHANGED storeVars

\* the lookup of target i raises, in session.run or while its rows are read:
\* the rows read before are appended already; except Exception: pass
TargetLookupRaises ==
  /\ rag.pc = "vector"
  /\ faults < MaxFaults
  /\ faults' = faults + 1
  /\ \E found \in queryNodes(targets[rag.i].label, rag.top_k) :
       /\ found = <<>> \/ VectorIndexName(targets[rag.i].label) \in indexes
       /\ rag' = AfterLookup(rag, found, TRUE)
  /\ UNCHANGED storeVars

\* the database has no index of the name looked up: the procedure call raises,
\* except Exception: pass
TargetLookupNoIndex ==
  /\ rag.pc = "vector"
  /\ VectorIndexName(targets[rag.i].label) \notin indexes
  /\ rag' = AfterLookup(rag, <<>>, TRUE)
  /\ UNCHANGED <<storeVars, faults>>

\* the query of family i answers
FamilyRun ==
  /\ rag.pc = "graph"
  /\ \E snippets \in FamilyAnswers(rag.i, graph, rag.entities) :
       rag' = GraphSearchFrom([rag EXCEPT !.graph_results = @ \o snippets,
                                          !.families = Append(@, rag.i)],
                              rag.i + 1)
  /\ UNCHANGED <<storeVars, faults>>

\* the query of family i raises: nothing in graph_search or query catches it
FamilyRaises ==
  /\ rag.pc = "graph"
  /\ faults < MaxFaults
  /\ faults' = faults + 1
  /\ rag' = [rag EXCEPT !.pc = "raised", !.families = Append(@, rag.i)]
  /\ UNCHANGED storeVars

\* call_llm(question, context), then the dict query returns
CallLLM ==
  /\ rag.pc = "llm"
  /\ \E provider \in LLM_PROVIDERS, outcome \in BackendOutcomes :
       /\ outcome.ok \/ faults < MaxFaults
       /\ faults' = IF outcome.ok \/ provider = "none" THEN faults ELSE faults + 1
       /\ rag' = [rag EXCEPT
                    !.pc = "returned",
                    !.stages = Append(@, "call_llm"),
                    !.llm_calls =
                       Append(@, [provider |-> provider, context |-> rag.context,
                                  raised |-> provider # "none" /\ ~outcome.ok,
                                  prompt |-> IF provider = "none" THEN None
                                             ELSE Prompt(rag.question, rag.context)]),
                    !.answer = call_llm(provider, rag.question, rag.context, outcome),
                    !.retrieval_method =
                       "hybrid (vector=" \o NatStr(Len(rag.vector_results))
                         \o ", graph=" \o NatStr(Len(rag.graph_results)) \o ")"]
  /\ UNCHANGED storeVars

\* the billing data the questions are asked over: an AWS usage row, then
\* repriced AWS rows or Azure purchase rows
QueryFiles ==
  {ds \in CsvFiles :
     ds[1] = AwsRow /\ \A i \in 2..Len(ds) : ds[i] \in {AwsRowRepriced, AzureRow}}

InitQuery == Init /\ files \in QueryFiles

\* one question, before the data is ingested or after
NextQuery ==
  \/ rag.pc = "idle" /\ RunSetup
  \/ rag.pc = "idle" /\ runs = 0 /\ IngestAllStart
  \/ SessionRun
  \/ RowReturns
  \/ IngestAllEnd
  \/ QueryStart
  \/ VectorSearchRaises
  \/ TargetLookup
  \/ TargetLookupRaises
  \/ TargetLookupNoIndex
  \/ FamilyRun
  \/ FamilyRaises
  \/ CallLLM

SpecQuery == InitQuery /\ [][NextQuery]_vars

\* the state in which query() has just classified its question
Classified == rag.pc = "vector" /\ rag.queried = <<>>

ComparePhrase == "compare storage costs between AWS and Azure"

\* the phrase occurs in q, in any letter case, and the character after one of
\* its occurrences is no letter, digit or underscore
PhraseEndsWord(q) ==
  \E i \in Occurrences(Lower(ComparePhrase), Lower(q)) :
    i + Len(ComparePhrase) > Len(q) \/ ~IsWordChar(CharAt(q, i + Len(ComparePhrase)))

IsComparison(intents, entities) ==
  /\ "service_comparison" \in Range(intents)
  /\ {"aws", "azure", "storage"} \subseteq entities

\* C13, as stated: every question that contains the phrase is classified as a
\* service comparison with the entities aws, azure and storage.
ComparePhraseAlwaysClassified ==
  (Classified /\ re_search(ComparePhrase, rag.question))
    => IsComparison(rag.intents, rag.entities)

\* C13, amended: every question that contains the phrase, in any letter case,
\* not immediately followed by a letter, digit or underscore is classified as a
\* service comparison with the entities aws, azure and storage.
ComparePhraseClassified ==
  (Classified /\ PhraseEndsWord(rag.question))
    => IsComparison(rag.intents, rag.entities)

\* the phrase in capitals, followed by a question mark, has been classified
ComparePhraseInCapitals ==
  /\ Classified
  /\ rag.question = QuestionCompareUpper
  /\ PhraseEndsWord(rag.question)
  /\ ~re_search(ComparePhrase, rag.question)
  /\ IsComparison(rag.intents, rag.entities)

\* p matches at position i of query whatever the case of the letters of query
\* (the patterns are in lower case)
MatchesAt(p, query, i) ==
  /\ i + Len(p) - 1 <= Len(query)
  /\ \A j \in 1..Len(p) : LowerChar(CharAt(query, i + j - 1)) = CharAt(p, j)

\* the intents of the taxonomy with a pattern that matches query
MatchingIntents(query) ==
  {e.k : e \in {f \in Range(INTENT_PATTERNS) :
                  \E x \in DOMAIN f.patterns, i \in 1..Len(query) :
                    MatchesAt(f.patterns[x], query, i)}}

\* C14: extract_intent returns exactly the intents of the taxonomy with a
\* pattern that matches the question in any letter case, each once, and the
\* single intent general exactly when there is none; the result is a function
\* of the question, and classifying changes nothing but the call's own locals.
IntentsAreTheMatchingOnes ==
  /\ [](Classified =>
          LET matching == MatchingIntents(rag.question)
          IN /\ rag.intents # <<>>
             /\ (matching = {}) <=> (rag.intents = <<"general">>)
             /\ matching # {} => /\ Range(rag.intents) = matching
                                 /\ Len(rag.intents) = Cardinality(matching)
             /\ rag.intents = extract_intent(rag.question)
             /\ rag.entities = extract_entities(rag.question))
  /\ [][(rag.pc = "idle" /\ rag'.pc = "vector")
          => UNCHANGED <<storeVars, faults>>]_vars

\* a question in capitals with four matching intents, and one with none
ClassifiedInCapitals ==
  /\ Classified
  /\ \/ /\ rag.question = QuestionProduction
        /\ rag.intents = <<"cost_analysis", "schema_query", "tag_query">>
        /\ rag.entities = {"production"}
     \/ /\ rag.question = QuestionGeneral
        /\ rag.intents = <<"general">>
        /\ rag.entities = {}

\* a CostRecord of the graph has a Charge of category Purchase
HasPurchaseRecords(g) ==
  \E p \in Pattern(g, "CostRecord", "HAS_CHARGE", "Charge") :
    p[2].props.chargeCategory = "Purchase"

\* double-counting language together with commitment or purchase vocabulary
AsksAboutDoubleCounting(q) ==
  /\ re_search("double counting", Lower(q)) \/ re_search("double-counting", Lower(q))
  /\ re_search("commitment", Lower(q)) \/ re_search("purchase", Lower(q))

IsWarning(r) == re_search("WARNING", r.text)

IsCostSummary(r) ==
  r.path \in {"CostRecord->Resource->Service", "CostRecord->Charge[category]"}

\* C15: over a graph with Purchase cost records, graph retrieval for a question
\* with double-counting language and commitment or purchase vocabulary returns
\* a snippet with the double-counting WARNING whose score is above that of
\* every cost-summary snippet returned.
DoubleCountingWarned ==
  (rag.pc = "llm" /\ HasPurchaseRecords(graph) /\ AsksAboutDoubleCounting(rag.question))
    => \E w \in Range(rag.graph_results) :
         /\ IsWarning(w)
         /\ \A r \in Range(rag.graph_results) : IsCostSummary(r) => w.score > r.score

\* C12: when vector retrieval and graph retrieval both return nothing, the
\* context of query() is the placeholder and never the empty string, and call_llm
\* is called exactly once, with the placeholder as its context (and in the prompt
\* of the backend when one is configured).
NoEvidenceGivesPlaceholder ==
  /\ rag.pc \in {"llm", "returned"} => rag.context # ""
  /\ rag.pc = "llm" => rag.llm_calls = <<>>
  /\ (rag.pc \in {"llm", "returned"} /\ rag.vector_results = <<>>
        /\ rag.graph_results = <<>>)
       => rag.context = NoDataPlaceholder
  /\ (rag.pc = "returned" /\ rag.vector_results = <<>> /\ rag.graph_results = <<>>)
       => /\ Len(rag.llm_calls) = 1
          /\ rag.llm_calls[1].context = NoDataPlaceholder
          /\ rag.llm_calls[1].provider # "none"
               => rag.llm_calls[1].prompt = Prompt(rag.question, NoDataPlaceholder)

\* a question answered over the empty graph by a backend, no index hit
ReturnedWithoutEvidence ==
  /\ rag.pc = "returned"
  /\ ~rag.vector_raised
  /\ Len(rag.queried) = Len(targets)
  /\ rag.families # <<>>
  /\ rag.vector_results = <<>>
  /\ rag.graph_results = <<>>
  /\ rag.llm_calls[1].provider = "groq"
  /\ rag.answer = "Use EffectiveCost."

\* vector_search has returned its list to query()
VectorSearchReturned == rag.pc \in {"graph", "llm"} /\ ~rag.vector_raised

\* C16: vector_search returns at most top_k results, in non-increasing score
\* order, no two with the same first 100 characters of text; each is one of the
\* rows found, and no row found with the same prefix has a higher score.
VectorResultsBest ==
  VectorSearchReturned =>
    LET vr == rag.vector_results
    IN /\ Len(vr) <= rag.top_k
       /\ NonIncreasingScore(vr)
       /\ NoSharedPrefix(vr)
       /\ \A v \in Range(vr) :
            /\ v \in Range(rag.results)
            /\ \A r \in Range(rag.results) :
                 PrefixKey(r) = PrefixKey(v) => ScoreOf(r) <= ScoreOf(v)

\* three rows found for top_k = 2, two of one prefix, the better one found last
VectorResultsCut ==
  /\ VectorSearchReturned
  /\ rag.top_k = 2
  /\ Len(rag.results) = 3
  /\ PrefixKey(rag.results[1]) = PrefixKey(rag.results[3])
  /\ ScoreOf(rag.results[1]) < ScoreOf(rag.results[3])
  /\ rag.vector_results = <<rag.results[3], rag.results[2]>>

\* the labels of the targets, in the order of the loop
TargetLabels == [x \in DOMAIN targets |-> targets[x].label]

\* the rows the lookups in q appended, in order
RECURSIVE RowsOf(_)
RowsOf(q) == IF Len(q) = 0 THEN <<>> ELSE Head(q).found \o RowsOf(Tail(q))

GraphFamilyFailureCaught == rag.pc # "raised"

\* the stages of query() in the order of the code
QueryStages == <<"vector_search", "graph_search", "assemble_context", "call_llm">>

\* the families whose if holds, in order
ApplicableFamilies(intents, entities) ==
  SelectSeq([f \in Families |-> f], LAMBDA f : Applies(f, intents, entities))

\* C19: when vector retrieval fails as a whole, query() goes on with no vector
\* result: graph retrieval is entered next, and a query that returns has run
\* every applicable family, then assemble_context, then call_llm once, and
\* reports vector=0.
VectorFailureIsZeroResults ==
  rag.vector_raised =>
    /\ rag.vector_results = <<>>
    /\ Len(rag.stages) >= 2
    /\ rag.stages = SubSeq(QueryStages, 1, Len(rag.stages))
    /\ rag.pc = "returned" =>
         /\ rag.stages = QueryStages
         /\ rag.families = ApplicableFamilies(rag.intents, rag.entities)
         /\ Len(rag.llm_calls) = 1
         /\ rag.llm_calls[1].context = rag.context
         /\ rag.retrieval_method
              = "hybrid (vector=0, graph=" \o NatStr(Len(rag.graph_results)) \o ")"

\* vector retrieval failed as a whole, graph retrieval found snippets, the
\* query returned
ReturnedAfterVectorFailure ==
  /\ rag.pc = "returned"
  /\ rag.vector_raised
  /\ rag.queried = <<>>
  /\ rag.graph_results # <<>>
  /\ rag.retrieval_method = "hybrid (vector=0, graph=3)"

\* s ends with t
EndsWith(s, t) == Len(s) >= Len(t) /\ SubSeq(s, Len(s) - Len(t) + 1, Len(s)) = t

\* C20: whatever the provider, when the backend fails or none is configured
\* call_llm returns a text made of a message (the error of the backend, or that
\* no LLM is configured) followed by the whole context; query() returns it.
LLMFailureReturnsContext ==
  /\ rag.pc = "llm" => rag.answer = None
  /\ rag.pc = "returned" =>
       LET c == rag.llm_calls[1]
           message == SubSeq(rag.answer, 1, Len(rag.answer) - Len(rag.context))
       IN (c.raised \/ c.provider = "none") =>
            /\ EndsWith(rag.answer, rag.context)
            /\ c.raised => re_search("error: Connection refused", message)
            /\ c.provider = "none" => re_search("No LLM configured", message)

\* a backend failed on a context with retrieved snippets
ReturnedAfterBackendFailure ==
  /\ rag.pc = "returned"
  /\ rag.llm_calls[1].raised
  /\ rag.llm_calls[1].provider = "ollama"
  /\ rag.context # NoDataPlaceholder
  /\ rag.answer = "Ollama error: Connection refused\n\n--- Retrieved context ---\n"
                    \o rag.context

(***************************************************************************)
(* assemble_context on its own: the two lists are drawn from the results   *)
(* below, which repeat a prefix, tie on a score, and lack a text or a      *)
(* score.                                                                  *)
(***************************************************************************)
MaxResults == 2

ResultPool ==
  {[label |-> "Charge", text |-> HundredChars \o "he month", score |-> 95,
    source |-> "vector"],
   [source |-> "graph", label |-> "FOCUSColumn", path |-> "FOCUSColumn",
    text |-> HundredChars \o "his period", score |-> 92],
   [source |-> "graph", label |-> "CostRecord", path |-> "CostRecord->Charge[category]",
    text |-> HundredChars \o "hat year", score |-> 95],
   [source |-> "graph", label |-> "CostRecord", path |-> "CostRecord->Charge[category]",
    text |-> "Charge category 'Usage': TotalBilled=$1.00, Records=1", score |-> 87],
   [label |-> "Charge", text |-> "", score |-> 99, source |-> "vector"],
   [label |-> "Service", text |-> "S3"]}

ResultLists == UNION {[1..n -> ResultPool] : n \in 0..MaxResults}

InitAssemble ==
  /\ graph = EmptyGraph
  /\ files \in CsvFiles
  /\ rows = <<>>
  /\ order = <<>>
  /\ phase = "idle"
  /\ pos = 1
  /\ pc = 1
  /\ success = 0
  /\ errors = 0
  /\ faults = 0
  /\ runs = 0
  /\ attempts = <<>>
  /\ rowStart = EmptyGraph
  /\ prevErrors = 0 - 1
  /\ wpc = <<>>
  /\ restarts = 0
  /\ embRuns = 0
  /\ epc = [stage |-> "none", i |-> 0]
  /\ pending = <<>>
  /\ indexes = {}
  /\ clears = NoClears
  /\ made = {}
  /\ \E vector_results \in ResultLists, graph_results \in ResultLists :
       rag = [NoQuery EXCEPT !.pc = "assemble", !.vector_results = vector_results,
                             !.graph_results = graph_results]

\* context = assemble_context(vector_results, graph_results), and the placeholder
Assemble ==
  /\ rag.pc = "assemble"
  /\ rag' = AfterGraphSearch(rag)
  /\ UNCHANGED <<storeVars, faults>>

NextAssemble == Assemble

SpecAssemble == InitAssemble /\ [][NextAssemble]_vars

\* C11: whatever two lists assemble_context is given, the context it returns is
\* rendered from entries no two of which share their first 100 characters, in
\* non-increasing order of score.
AssembledUniqueAndOrdered ==
  rag.pc = "llm" =>
    LET es == assemble_entries(rag.vector_results, rag.graph_results)
    IN /\ rag.context = IF Len(es) = 0 THEN NoDataPlaceholder ELSE Rendered(es)
       /\ NoSharedPrefix(es)
       /\ NonIncreasingScore(es)

\* two inputs of the same prefix, the lower score first: one entry is left
AssembledFromSharedPrefix ==
  /\ rag.pc = "llm"
  /\ \E a, b \in DOMAIN (rag.vector_results \o rag.graph_results) :
       LET xs == rag.vector_results \o rag.graph_results
       IN /\ a < b
          /\ PrefixKey(xs[a]) = PrefixKey(xs[b])
          /\ ScoreOf(xs[a]) < ScoreOf(xs[b])
          /\ Truthy(Get(xs[a], "text", None))
  /\ Len(assemble_entries(rag.vector_results, rag.graph_results)) = 1

(***************************************************************************)
(* Views of the graph.                                                     *)
(***************************************************************************)
Labels == {n.label : n \in graph.nodes}
RelTypes == {r.type : r \in graph.rels}

NodeCount(g, label) == Cardinality({n \in g.nodes : n.label = label})
RelCount(g, type) == Cardinality({r \in g.rels : r.type = type})

\* the labels that setup_constraints declares a uniqueness constraint for
ConstrainedLabels ==
  {"BillingAccount", "SubAccount", "Service", "Location", "Resource", "BillingPeriod"}

RowIndexes == 0..(Len(rows) - 1)

(***************************************************************************)
(* C1.  Running construction a second time over the same input, after a    *)
(* first run that ingested every row, creates no node and no relationship: *)
(* during the second run the number of nodes of every label and of         *)
(* relationships of every type stays what it was.                          *)
(***************************************************************************)
SecondRunAddsNothing ==
  [][(phase = "ingest" /\ prevErrors = 0)
       => /\ \A l \in Labels \cup {n.label : n \in graph'.nodes} :
               NodeCount(graph', l) = NodeCount(graph, l)
          /\ \A t \in RelTypes \cup {r.type : r \in graph'.rels} :
               RelCount(graph', t) = RelCount(graph, t)]_vars

\* the second run has gone through every row after a clean first run
SecondRunDone ==
  /\ phase = "ingest"
  /\ prevErrors = 0
  /\ pos > Len(order)
  /\ success = Len(rows)
  /\ graph.rels # {}

(***************************************************************************)
(* C2.  No two nodes of a label with a uniqueness constraint share their   *)
(* key value, in any state of any sequence of construction runs.           *)
(***************************************************************************)
UniqueKeys ==
  \A n, m \in graph.nodes :
    (n.label \in ConstrainedLabels /\ n.label = m.label /\ n.key = m.key) => n.id = m.id

\* two runs are over and two rows of the input upserted the same Resource
SharedKeyIngestedTwice ==
  /\ phase = "done"
  /\ runs = MaxRuns
  /\ success = Len(rows)
  /\ \E i, j \in RowIndexes :
       /\ i # j
       /\ create_resource(rows[i + 1]).ret = create_resource(rows[j + 1]).ret
       /\ create_billing_account(rows[i + 1]).ret = create_billing_account(rows[j + 1]).ret
       /\ Truthy(create_billing_account(rows[i + 1]).ret)

(***************************************************************************)
(* C3.  Two rows at different indexes with the same source, billing        *)
(* account, charge period start and (present) resource id but different    *)
(* cost values give, once both are ingested, exactly one Resource node of  *)
(* that id and two distinct CostRecord nodes, each holding the costs of    *)
(* its own row.                                                            *)
(***************************************************************************)
SameNaturalKeys(r1, r2) ==
  /\ r1._source = r2._source
  /\ r1.BillingAccountId = r2.BillingAccountId
  /\ r1.ChargePeriodStart = r2.ChargePeriodStart
  /\ r1.ResourceId = r2.ResourceId
  /\ ~IsNa(r1.ResourceId)

Costs(row) ==
  <<safe_float(row.EffectiveCost), safe_float(row.BilledCost),
    safe_float(row.ListCost), safe_float(row.ContractedCost)>>

NodeCosts(n) ==
  <<n.props.effectiveCost, n.props.billedCost, n.props.listCost, n.props.contractedCost>>

TwinRows(i, j) ==
  /\ i # j
  /\ SameNaturalKeys(rows[i + 1], rows[j + 1])
  /\ Costs(rows[i + 1]) # Costs(rows[j + 1])

TwinRowsKeepOwnCosts ==
  (phase = "done" /\ errors = 0) =>
    \A i, j \in RowIndexes :
      TwinRows(i, j) =>
        /\ Cardinality(Match(graph, "Resource", create_resource(rows[i + 1]).ret)) = 1
        /\ create_resource(rows[i + 1]).ret = create_resource(rows[j + 1]).ret
        /\ cost_record_id(rows[i + 1], i) # cost_record_id(rows[j + 1], j)
        /\ Cardinality(Match(graph, "CostRecord", cost_record_id(rows[i + 1], i))) = 1
        /\ Cardinality(Match(graph, "CostRecord", cost_record_id(rows[j + 1], j))) = 1
        /\ \A n \in Match(graph, "CostRecord", cost_record_id(rows[i + 1], i)) :
             NodeCosts(n) = Costs(rows[i + 1])
        /\ \A n \in Match(graph, "CostRecord", cost_record_id(rows[j + 1], j)) :
             NodeCosts(n) = Costs(rows[j + 1])

TwinRowsIngested ==
  /\ phase = "done"
  /\ errors = 0
  /\ \E i, j \in RowIndexes : TwinRows(i, j)
  /\ NodeCount(graph, "CostRecord") = 2
  /\ NodeCount(graph, "Resource") = 1

(***************************************************************************)
(* C4.  Every CostRecord node has effectiveCost, billedCost, listCost and  *)
(* contractedCost greater than or equal to 0.                              *)
(***************************************************************************)
CostsNonNegative ==
  \A n \in graph.nodes :
    n.label = "CostRecord" =>
      /\ n.props.effectiveCost >= 0
      /\ n.props.billedCost >= 0
      /\ n.props.listCost >= 0
      /\ n.props.contractedCost >= 0

(***************************************************************************)
(* C7.  ingest_all attempts every row exactly once: while the loop runs,   *)
(* the rows before the loop position have been attempted once and counted  *)
(* once as a success or as an error, the others not at all; a row that     *)
(* raises does not end the loop, so when ingest_all finishes               *)
(* success + errors is the number of rows, and no failure leaves it.       *)
(***************************************************************************)
EveryRowCountedOnce ==
  /\ phase # "crashed"
  /\ phase \in {"ingest", "done"} =>
       /\ success + errors = pos - 1
       /\ \A k \in 1..Len(order) :
            attempts[order[k]] = IF k < pos THEN 1 ELSE 0
  /\ phase = "done" =>
       /\ success + errors = Len(rows)
       /\ \A i \in RowIndexes : attempts[i] = 1

\* the first row raised at its first write and the last row was still ingested
LaterRowIngestedAfterError ==
  /\ phase = "done"
  /\ runs = 1
  /\ errors = 1
  /\ success = Len(rows) - 1
  /\ Match(graph, "CostRecord", cost_record_id(rows[1], 0)) = {}
  /\ Match(graph, "CostRecord", cost_record_id(rows[Len(rows)], Len(rows) - 1)) # {}

(***************************************************************************)
(* C8.  The writes of one row are one transaction: when a row is counted   *)
(* as an ingestion error, the graph is what it was when the row's call     *)
(* began.                                                                  *)
(***************************************************************************)
FailedRowLeavesNothing ==
  [][errors' = errors + 1 => graph' = rowStart]_vars

(***************************************************************************)
(* C9.  parse_tags returns a map for every payload and never raises; a     *)
(* missing, empty, malformed or non-map payload gives the empty map; and   *)
(* rows are counted as errors only for store failures, never for tags.     *)
(***************************************************************************)
UnusableTags ==
  {NaN, None, "", Zero, Seven, TagsNotJson, TagsList, TagsApostrophe}

NodeRunsOf(rs, label, key) ==
  {i \in 1..Len(rs) : rs[i].op = "node" /\ rs[i].label = label /\ rs[i].key = key}

\* the property maps the calls write to the node of a label and key
WrittenProps(rs, label, key) == {rs[i].props : i \in NodeRunsOf(rs, label, key)}

\* the property map the last of them writes
LastProps(rs, label, key) ==
  LET last == CHOOSE i \in NodeRunsOf(rs, label, key) :
                \A j \in NodeRunsOf(rs, label, key) : j <= i
  IN rs[last].props

\* one node per label and key written, one relationship per merge
ExpectedNodeIds(rs) ==
  {<<rs[i].label, rs[i].key, 0>> : i \in {j \in 1..Len(rs) : rs[j].op = "node"}}

ExpectedRels(rs) ==
  {[id |-> <<rs[i].type, <<rs[i].slabel, rs[i].skey, 0>>, <<rs[i].dlabel, rs[i].dkey, 0>>, 0>>,
    type |-> rs[i].type,
    src |-> <<rs[i].slabel, rs[i].skey, 0>>,
    dst |-> <<rs[i].dlabel, rs[i].dkey, 0>>] : i \in {j \in 1..Len(rs) : rs[j].op = "rel"}}

NodeIds(g) == {n.id : n \in g.nodes}

\* the session.run calls in the order the rows are processed, in index order
ProcessedRuns == AllRuns(rows, order)
SequentialRuns == AllRuns(rows, EnumerateOrder(rows))

\* the rows of the input ingested one after the other in index order
Sequential == IngestInOrder(EmptyGraph, rows, EnumerateOrder(rows))

Embedded(g) == {n \in g.nodes : n.embedding # Null}

EmbeddingNeverRecomputed ==
  [][/\ \A n \in Embedded(graph) :
          \E m \in graph'.nodes : m.id = n.id /\ m.embedding = n.embedding
     /\ \A k \in 1..Len(pending') :
          \A n \in graph'.nodes : n.id = pending'[k][1] => n.embedding = Null]_vars

\* an embedding run has finished, a construction run has since rewritten the
\* description of an embedded node, and the next embedding run has passed
\* the node's label leaving the first vector in place
Stale(n) == n.embedding # Null /\ HasText(n) /\ n.embedding # embed_text(n.props.description)

StaleEmbeddingKept ==
  /\ embRuns = 1
  /\ epc.stage = "select"
  /\ \E n \in graph.nodes :
       /\ Stale(n)
       /\ \E t \in 1..Len(EmbedTargets) : EmbedTargets[t] = n.label /\ t < epc.i

(***************************************************************************)
(* C29.  Every index vector_search looks a target up in is one that schema *)
(* setup declares under that name: once schema setup has created every     *)
(* index it declares, no lookup of vector_search is on an absent index.     *)
(***************************************************************************)
\* the index names vector_search builds for its targets
QueriedIndexes == {VectorIndexName(targets[x].label) : x \in DOMAIN targets}

\* schema setup has run and none of its index declarations was skipped
SetupComplete == DeclaredVectorIndexes \subseteq indexes

QueriedIndexesDeclared ==
  (SetupComplete /\ VectorSearchReturned) =>
    \A x \in DOMAIN rag.queried :
      VectorIndexName(rag.queried[x].label) \in indexes

(***************************************************************************)
(* The operations of the command line (run.py) and of graph/schema.py, one *)
(* at a time over one database: schema setup, construction, embedding      *)
(* enrichment, a question, and clear_database, which run.py never calls.   *)
(***************************************************************************)
MaxClears == 2

\* clear_database that deletes whatever the flag is
ClearDatabaseUnconfirmed(confirm) ==
  /\ NotRunning
  /\ EmbedNotRunning
  /\ rag.pc \in {"idle", "returned"}
  /\ clears.calls < MaxClears
  /\ clears' = [calls |-> clears.calls + 1,
                confirmed |-> clears.confirmed + (IF confirm THEN 1 ELSE 0)]
  /\ graph' = EmptyGraph
  /\ UNCHANGED <<files, rows, order, phase, pos, pc, success, errors, faults, runs,
                 attempts, rowStart, prevErrors, wpc, restarts, embRuns, epc, pending,
                 rag, indexes, made>>

\* clear_database(driver, confirm): if not confirm, print and return;
\* else MATCH (n) DETACH DELETE n
ClearDatabase(confirm) ==
  /\ NotRunning
  /\ EmbedNotRunning
  /\ rag.pc \in {"idle", "returned"}
  /\ clears.calls < MaxClears
  /\ clears' = [calls |-> clears.calls + 1,
                confirmed |-> clears.confirmed + (IF confirm THEN 1 ELSE 0)]
  /\ graph' = IF confirm THEN EmptyGraph ELSE graph
  /\ UNCHANGED <<files, rows, order, phase, pos, pc, success, errors, faults, runs,
                 attempts, rowStart, prevErrors, wpc, restarts, embRuns, epc, pending,
                 rag, indexes, made>>

\* no operation is in progress and no question has been asked
Quiet == NotRunning /\ EmbedNotRunning /\ rag.pc = "idle"

\* the cost data and the question of the runs
LifecycleFiles == {<<AwsRow, AzureRow>>}

InitLifecycle == Init /\ files \in LifecycleFiles

NextLifecycle ==
  \/ Quiet /\ RunSetup /\ faults' = faults
  \/ \E confirm \in BOOLEAN : ClearDatabase(confirm)
  \/ Quiet /\ IngestAllStart
  \/ SessionRun
  \/ RowReturns
  \/ IngestAllEnd
  \/ Quiet /\ RunEmbeddingsStart
  \/ KnowledgeRun
  \/ GetNodes
  \/ UpdateBatch
  \/ RunEmbeddingsEnd
  \/ Quiet /\ QueryStart /\ rag'.question = QuestionCompare /\ rag'.top_k = 1
  \/ TargetLookup
  \/ TargetLookupNoIndex
  \/ FamilyRun
  \/ CallLLM

SpecLifecycle == InitLifecycle /\ [][NextLifecycle]_vars

(***************************************************************************)
(* C21.  A step that is not a clear_database call with confirm=True keeps  *)
(* every node and every relationship of the graph: clear_database without  *)
(* the flag, schema setup, construction, enrichment and query delete       *)
(* nothing, and none of them counts as a confirmed clear.                  *)
(***************************************************************************)
OnlyConfirmedClearDeletes ==
  [][clears'.confirmed = clears.confirmed =>
       /\ {n.id : n \in graph.nodes} \subseteq {n.id : n \in graph'.nodes}
       /\ graph.rels \subseteq graph'.rels]_vars

\* clear_database was called without the flag only, after construction,
\* enrichment and a question, and the graph is still there
UnconfirmedClearKeptGraph ==
  /\ clears.calls = 2
  /\ clears.confirmed = 0
  /\ runs >= 1
  /\ embRuns >= 1
  /\ rag.pc = "returned"
  /\ indexes # {}
  /\ graph.rels # {}

(***************************************************************************)
(* Construction runs over input files that are replaced between the runs   *)
(* (a corrected or a later export under the same configured paths).        *)
(***************************************************************************)
\* the billing line of AwsRow reissued as a credit
AwsRowCredit ==
  [AwsRow EXCEPT !.ChargeCategory = "Credit", !.EffectiveCost = "-2", !.BilledCost = "-2"]

\* the resource of AwsRow billed for another service in another region
AwsRowMoved ==
  [AwsRow EXCEPT !.ServiceName = "EC2", !.ServiceCategory = "Compute",
                 !.RegionId = "eu-west-1", !.RegionName = "EU West",
                 !.ChargePeriodStart = "2024-01-06", !.ChargePeriodEnd = "2024-01-07"]

\* the files a later export can hold
RerunFiles ==
  {ds \in [1..NRows -> CsvRows \cup {AwsRowCredit, AwsRowMoved}] : IsAwsFirst(ds)}

\* the files AWS_CSV and AZURE_CSV name hold other rows at the next run
ReplaceFiles ==
  /\ NotRunning
  /\ runs = 1
  /\ \E ds \in RerunFiles : ds # files /\ files' = ds
  /\ UNCHANGED <<graph, rows, order, phase, pos, pc, success, errors, faults, runs,
                 attempts, rowStart, prevErrors>>
  /\ UNCHANGED otherVars

NextRerun ==
  \/ ReplaceFiles
  \/ IngestAllStart
  \/ SessionRun
  \/ RowReturns
  \/ IngestAllEnd

SpecRerun == Init /\ [][NextRerun]_vars

(***************************************************************************)
(* C22.  Once a CostRecord node exists, no step of a construction run,     *)
(* over the same or other input data, changes any of its attributes.       *)
(***************************************************************************)
CostRecordsImmutable ==
  [][\A n \in graph.nodes :
       n.label = "CostRecord" =>
         \E m \in graph'.nodes : m.id = n.id /\ m.props = n.props]_vars

(***************************************************************************)
(* C23.  Every dimension node written by construction (every node that is  *)
(* not a CostRecord) has a description attribute that is not empty.        *)
(***************************************************************************)
DimensionLabels ==
  {"BillingAccount", "SubAccount", "BillingPeriod", "Service", "Location", "Resource",
   "Charge", "VendorAttrsAWS", "VendorAttrsAzure", "Tag", "CostAllocation"}

DimensionNodesDescribed ==
  \A n \in graph.nodes :
    n.label \in DimensionLabels =>
      /\ "description" \in DOMAIN n.props
      /\ n.props.description \notin {"", NaN, None}

(***************************************************************************)
(* C24.  When graph_search returns, the families it ran are exactly those  *)
(* whose gating condition holds, each once and in the fixed order (top     *)
(* services, production tag, storage, commitment, glossary, charge         *)
(* category); the list it returns is the concatenation of their snippets   *)
(* in that order; with only the general intent and neither the production  *)
(* nor the storage entity the list is empty.                               *)
(***************************************************************************)
\* graph_search has just returned its list to query()
GraphSearchReturned == rag.pc = "llm"

\* the dispatch table: family f is due for the intents and entities
Gate(f, intents, entities) ==
  \/ f = 1 /\ {"cost_analysis", "service_comparison"} \cap Range(intents) # {}
  \/ f = 2 /\ ("production" \in entities \/ "tag_query" \in Range(intents))
  \/ f = 3 /\ ("storage" \in entities \/ "service_comparison" \in Range(intents))
  \/ f = 4 /\ "commitment_analysis" \in Range(intents)
  \/ f = 5 /\ "schema_query" \in Range(intents)
  \/ f = 6 /\ {"cost_analysis", "commitment_analysis"} \cap Range(intents) # {}

\* the lists that are the snippets of the families fs, one after the other
RECURSIVE Concatenations(_, _, _)
Concatenations(fs, g, entities) ==
  IF fs = <<>> THEN {<<>>}
  ELSE LET rest == Concatenations(Tail(fs), g, entities)
       IN {a \o b : a \in FamilyAnswers(Head(fs), g, entities), b \in rest}

RelsFrom(g, type, n) == {r \in g.rels : r.type = type /\ r.src = n.id}
RelsTo(g, type, n) == {r \in g.rels : r.type = type /\ r.dst = n.id}

VendorLabels == {"VendorAttrsAWS", "VendorAttrsAzure"}

\* every row of the last run returned
RunSucceeded == phase = "done" /\ errors = 0

ChargeAndVendorOneToOne ==
  RunSucceeded =>
    \A n \in graph.nodes :
      /\ n.label = "CostRecord" =>
           /\ Cardinality(RelsFrom(graph, "HAS_CHARGE", n)) = 1
           /\ Cardinality(RelsFrom(graph, "HAS_VENDOR_ATTRS", n)) = 1
           /\ \A r \in RelsFrom(graph, "HAS_VENDOR_ATTRS", n) :
                r.dst[1] = (IF n.props.source = "aws" THEN "VendorAttrsAWS"
                            ELSE "VendorAttrsAzure")
      /\ n.label = "Charge" => Cardinality(RelsTo(graph, "HAS_CHARGE", n)) = 1
      /\ n.label \in VendorLabels =>
           Cardinality(RelsTo(graph, "HAS_VENDOR_ATTRS", n)) = 1

(***************************************************************************)
(* C26.  After construction runs every Resource node has at most one       *)
(* USES_SERVICE and at most one DEPLOYED_IN relationship.                  *)
(***************************************************************************)
ResourceManyToOne ==
  RunSucceeded =>
    \A n \in graph.nodes :
      n.label = "Resource" =>
        /\ Cardinality(RelsFrom(graph, "USES_SERVICE", n)) <= 1
        /\ Cardinality(RelsFrom(graph, "DEPLOYED_IN", n)) <= 1

(***************************************************************************)
(* Embedding enrichment of a graph that holds more nodes of one kind than  *)
(* one get_nodes_needing_embeddings query returns: the graph of a          *)
(* construction run over QueryLimit + 1 rows.                              *)
(***************************************************************************)
ManyRowFiles ==
  {ds \in [1..(QueryLimit + 1) -> {AwsRow, AzureRow}] : IsAwsFirst(ds)}

InitEmbedMany ==
  /\ files \in ManyRowFiles
  /\ rows = load_data(files)
  /\ order = EnumerateOrder(files)
  /\ graph = IngestInOrder(EmptyGraph, rows, order)
  /\ phase = "done"
  /\ pos = Len(order) + 1
  /\ pc = 1
  /\ success = Len(order)
  /\ errors = 0
  /\ faults = 0
  /\ runs = 1
  /\ attempts = [i \in 0..(Len(files) - 1) |-> 1]
  /\ rowStart = EmptyGraph
  /\ prevErrors = 0
  /\ wpc = <<>>
  /\ restarts = 0
  /\ embRuns = 0
  /\ epc = [stage |-> "none", i |-> 0]
  /\ pending = <<>>
  /\ rag = NoQuery
  /\ indexes = {}
  /\ clears = NoClears
  /\ made = {}

NextEmbedMany ==
  \/ RunEmbeddingsStart
  \/ KnowledgeRun
  \/ GetNodes
  \/ UpdateBatch
  \/ RunEmbeddingsEnd

SpecEmbedMany == InitEmbedMany /\ [][NextEmbedMany]_vars

(***************************************************************************)
(* C27.  When embed_node_type has completed for a node kind and nothing    *)
(* else has written since, no node of that kind with a non-empty           *)
(* description lacks an embedding.                                         *)
(***************************************************************************)
\* the kinds of node_types embed_node_type has completed in this run
CompletedTypes ==
  IF epc.stage \in {"select", "write"}
  THEN {EmbedTargets[t] : t \in (Len(knowledge_types) + 1)..(epc.i - 1)}
  ELSE {}

EmbedNodeTypeLeavesNone ==
  \A n \in graph.nodes :
    (n.label \in CompletedTypes /\ HasText(n)) => n.embedding # Null

(***************************************************************************)
(* C28.  For the question 'Find all AWS compute services', which names a   *)
(* provider and a compute concept, graph_search runs at least one query    *)
(* family, and returns graph snippets when the graph holds cost records of *)
(* an AWS compute service.                                                 *)
(***************************************************************************)
\* the graph holds a cost record of an AWS service of category Compute
HoldsAwsCompute ==
  \E p \in ServicePaths(graph) :
    p[1].props.source = "aws" /\ p[3].props.serviceCategory = "Compute"

ComputeQuestionUsesGraph ==
  (GraphSearchReturned /\ rag.question = QuestionFindCompute /\ HoldsAwsCompute) =>
    /\ rag.families # <<>>
    /\ rag.graph_results # <<>>

(***************************************************************************)
(* make_id at its two call sites with hand-made keys: the record id of a   *)
(* row (source, idx, BillingAccountId, ChargePeriodStart, ResourceId) and  *)
(* the id of a tag (key, str(value)).                                      *)
(***************************************************************************)
MaxIds == 2
MaxIdx == 2

\* BillingAccountId cells: a column pandas read as integers, or a text
AccountCells == {PyInt(0), PyInt(1), "acct-1"}

\* the keys and the values of a parsed Tags dict
TagKeys == {"", "env"}
TagValues == {"", "env", "prod"}

otherThanMade ==
  <<graph, files, rows, order, phase, pos, pc, success, errors, faults, runs, attempts,
    rowStart, prevErrors, wpc, restarts, embRuns, epc, pending, rag, indexes, clears>>

\* record_id = make_id(source, idx, row.get("BillingAccountId"), ...)
MakeRecordId ==
  /\ Cardinality(made) < MaxIds
  /\ \E idx \in 0..MaxIdx, acct \in AccountCells :
       LET row == [AwsRow EXCEPT !.BillingAccountId = acct]
       IN made' = made \cup
            {[parts |-> <<row._source, PyInt(idx), row.BillingAccountId,
                          row.ChargePeriodStart, row.ResourceId>>,
              id |-> cost_record_id(row, idx)]}
  /\ UNCHANGED otherThanMade

\* tag_id = make_id("tag", key, str(value))
MakeTagId ==
  /\ Cardinality(made) < MaxIds
  /\ \E key \in TagKeys, value \in TagValues :
       made' = made \cup
         {[parts |-> <<"tag", key, value>>,
           id |-> create_tags(<<<<key, value>>>>, None).ret[1]]}
  /\ UNCHANGED otherThanMade

NextIds ==
  \/ MakeRecordId
  \/ MakeTagId

SpecIds == Init /\ [][NextIds]_vars

(***************************************************************************)
(* C30.  Two make_id calls whose part tuples differ never return the same  *)
(* id, also when the tuples differ only by an empty, zero or missing part. *)
(***************************************************************************)
MakeIdInjective ==
  \A a, b \in made : a.parts # b.parts => a.id # b.id

====
